---- MODULE Spec2Model ----
(***************************************************************************)
(* Reconciliation engine of the MCPRegistry operator.                      *)
(*                                                                         *)
(* The repository holds two generations of the controller:                 *)
(*   - "syncmanager":   unnamed/part_005 (MCPRegistryReconciler) driving    *)
(*                      pkg/sync/manager.go (DefaultSyncManager);           *)
(*   - "statusmanager": unnamed/part_004 (MCPRegistryReconciler) driving    *)
(*                      controllers/status_manager.go (StatusManager).      *)
(* Both use the ConfigMap source handler, the format converter and the     *)
(* ConfigMap storage manager.  The variable controller fixes which build   *)
(* runs; one declaration is reconciled, one handler run per step.          *)
(*                                                                         *)
(* Times and durations are in seconds.  Byte strings are abstract          *)
(* payloads; SHA-256 is an injective function of the payload.              *)
(***************************************************************************)
EXTENDS Integers, Sequences, FiniteSets, TLC

\* ------------------------------------------------------------------ bounds
\* the clock runs for MaxHours hours
MaxHours == 2
\* a sync that fails is not started once syncAttempts has reached this value
AttemptsCap == 12
\* the same for a reconcile of the status manager build
RetryCap == 6
\* cluster calls that fail, over a run of the system
MaxFaults == 1
\* edits of the source ConfigMap, over a run of the system
MaxEdits == 1
\* successful Store calls in a row on one artifact
MaxStores == 3

\* ------------------------------------------------------- program constants
MaxSyncAttempts == 10
MaxValidationRetries == 3
MaxHandlerCreationRetries == 3
ConfigMapSourceType == "configmap"
DefaultRegistryKey == "registry.json"
StorageConfigMapKeyData == "registry.json"
RegistryFormatToolHive == "toolhive"
RegistryFormatUpstream == "upstream"
Hour == 60 * 60
DefaultRequeue == 5 * 60
DefaultSyncInterval == 1 * Hour

ReasonAlreadyInProgress == "sync-already-in-progress"
ReasonRegistryNotReady == "registry-not-ready"
ReasonRetryBackoffActive == "retry-backoff-active"
ReasonSourceDataChanged == "source-data-changed"
ReasonErrorCheckingChanges == "error-checking-data-changes"
ReasonManualWithChanges == "manual-sync-with-data-changes"
ReasonManualNoChanges == "manual-sync-no-data-changes"
ReasonErrorCheckingSyncNeed == "error-checking-sync-need"
ReasonUpToDateWithPolicy == "up-to-date-with-policy"
ReasonUpToDateNoPolicy == "up-to-date-no-policy"

CondTypes == {"SourceAvailable", "DataValid", "SyncSuccessful", "StorageReady"}

\* ------------------------------------------------------------ nil values
NoTime == -1
EmptyHash == <<>>
NilRef == <<>>
NoCond == [status |-> "", reason |-> ""]
NoConds == [t \in CondTypes |-> NoCond]

\* ---------------------------------------------------------------- payloads
\* A payload is the content of a byte string: shape is what the bytes parse
\* as, names the server entries, stamp tells bytes synthesised by a
\* conversion (version := "1.0.0", lastUpdated := now) from source bytes.
ServerNames == {"filesystem", "fetch", "notion"}
RemoteNames == {"notion"}
ServerTags(n) ==
    CASE n = "filesystem" -> {"production"}
      [] n = "fetch" -> {"experimental"}
      [] OTHER -> {"production", "deprecated"}

Bytes(shape, names, stamp) == [shape |-> shape, names |-> names, stamp |-> stamp]
NoBytes == Bytes("none", {}, "src")
NotJSON == Bytes("notjson", {}, "src")
SourcePayloads ==
    { Bytes("toolhive", {}, "src"),
      Bytes("toolhive", {"filesystem", "fetch", "notion"}, "src"),
      Bytes("upstream", {"filesystem"}, "src"),
      NotJSON }

\* crypto/sha256 + hex: injective on the bytes, never the empty string
calculateHash(data) == <<data>>

\* ------------------------------------------------------- format converter
normalizeFormat(format) == IF format = "" THEN RegistryFormatToolHive ELSE format

\* keys of an upstream map whose value is null or has no server.name
NamelessKeys == {"draft"}

\* DetectFormat when the range over the upstream map visits the entry
\* `first` first: only that entry is looked at. "" stands for the error
\* return
DetectFormatVisiting(data, first) ==
    IF data.shape = "toolhive" THEN RegistryFormatToolHive
    ELSE IF data.shape = "upstream" /\ data.names # {} /\ first \notin NamelessKeys
         THEN RegistryFormatUpstream
    ELSE ""

\* DetectFormat on a payload whose map values all have a server.name (every
\* payload of the reconcile loop and of the API server), where the entry
\* visited first makes no difference: "" stands for the error return
DetectFormat(data) ==
    IF data.shape = "toolhive" THEN RegistryFormatToolHive
    ELSE IF data.shape = "upstream" /\ data.names # {} THEN RegistryFormatUpstream
    ELSE ""

convertUpstreamToToolhive(data) ==
    IF data.shape # "upstream" THEN [err |-> TRUE, data |-> NoBytes]
    ELSE [err |-> FALSE,
          data |-> Bytes("toolhive", data.names \ RemoteNames, "conv")]

convertToolhiveToUpstream(data) ==
    IF data.shape \notin {"toolhive", "upstream"} THEN [err |-> TRUE, data |-> NoBytes]
    ELSE [err |-> FALSE,
          data |-> Bytes("upstream",
                         IF data.shape = "toolhive" THEN data.names \ RemoteNames ELSE {},
                         "conv")]

Convert(data, fromFormat, toFormat) ==
    LET from == normalizeFormat(fromFormat)
        to == normalizeFormat(toFormat)
        supported == {RegistryFormatToolHive, RegistryFormatUpstream}
    IN  IF data.shape = "none" THEN [err |-> TRUE, data |-> NoBytes]
        ELSE IF from = to THEN [err |-> FALSE, data |-> data]
        ELSE IF from \notin supported \/ to \notin supported
             THEN [err |-> TRUE, data |-> NoBytes]
        ELSE IF from = RegistryFormatUpstream THEN convertUpstreamToToolhive(data)
        ELSE convertToolhiveToUpstream(data)


\* ------------------------------------------------------------ declaration
RegName == "community"
RegNamespace == "toolhive-system"
SourceConfigMapName == "registry-data"

NoFilter == [set |-> FALSE, include |-> {}, exclude |-> {}, tagInclude |-> {}, tagExclude |-> {}]
Filter(inc, exc, tinc, texc) ==
    [set |-> TRUE, include |-> inc, exclude |-> exc, tagInclude |-> tinc, tagExclude |-> texc]

DeclSpec(type, cm, format, filter, policy, retry) ==
    [sourceType |-> type, cmName |-> cm, format |-> format, filter |-> filter,
     syncPolicy |-> policy, retryPolicy |-> retry]
BaseSpec == DeclSpec(ConfigMapSourceType, SourceConfigMapName, "", NoFilter, "", FALSE)
\* the declarations a user writes: the base one and its variations
DeclSpecs ==
    { BaseSpec,
      [BaseSpec EXCEPT !.syncPolicy = "automatic", !.retryPolicy = TRUE,
                       !.filter = Filter({}, {}, {"production"}, {"deprecated"})],
      [BaseSpec EXCEPT !.syncPolicy = "manual", !.format = RegistryFormatUpstream],
      [BaseSpec EXCEPT !.filter = Filter({"["}, {}, {}, {})],
      [BaseSpec EXCEPT !.sourceType = "url"],
      [BaseSpec EXCEPT !.cmName = ""] }
Triggers == {"", "t1"}
\* the user sets the trigger annotation to a fresh value
NextTrigger(old, new) == old = "" /\ new = "t1"

InitStatus ==
    [phase |-> "", message |-> "", conds |-> NoConds,
     lastSyncTime |-> NoTime, lastSyncHash |-> EmptyHash, serverCount |-> 0,
     syncAttempts |-> 0, nextRetryTime |-> NoTime, storageRef |-> NilRef,
     lastManualSyncTrigger |-> ""]

NoResult == [requeue |-> FALSE, after |-> 0]
RequeueAfter(d) == [requeue |-> FALSE, after |-> d]

\* ----------------------------------------------------------- source handler
NoError == [text |-> "", name |-> "", ns |-> "", wraps |-> ""]
HandlerError(text, wraps) == [text |-> text, name |-> "", ns |-> "", wraps |-> wraps]
\* an error that is not a SourceHandlerError
PlainError(text) == [text |-> text, name |-> "", ns |-> "", wraps |-> "plain"]

Validate(spec) ==
    IF spec.sourceType # ConfigMapSourceType
        THEN HandlerError("source type mismatch", "type mismatch")
    ELSE IF spec.cmName = ""
        THEN HandlerError("configmap name is required", "validation failed")
    ELSE NoError

NoSyncResult(err) ==
    [err |-> err, data |-> NoBytes, hash |-> EmptyHash, serverCount |-> 0, format |-> ""]

\* Sync hashing the bytes it returns in place of the bytes it read
SyncHashingConverted(spec, src, get) ==
    LET v == Validate(spec)
        targetFormat == IF spec.format = "" THEN RegistryFormatToolHive ELSE spec.format
        detected == DetectFormat(src)
        sourceFormat == IF detected = "" THEN targetFormat ELSE detected
        converted == IF sourceFormat # targetFormat
                     THEN Convert(src, sourceFormat, targetFormat)
                     ELSE [err |-> FALSE, data |-> src]
    IN  IF v # NoError THEN NoSyncResult(v)
        ELSE IF get = "error"
            THEN NoSyncResult(HandlerError("failed to fetch ConfigMap", "api error"))
        ELSE IF src = NoBytes
            THEN NoSyncResult([text |-> "ConfigMap not found", name |-> spec.cmName,
                               ns |-> RegNamespace, wraps |-> "source not found"])
        ELSE IF src.shape = "notjson"
            THEN NoSyncResult(HandlerError("invalid JSON in ConfigMap key", "invalid data format"))
        ELSE IF converted.err
            THEN NoSyncResult(HandlerError("failed to convert", "conversion"))
        ELSE [err |-> NoError,
              data |-> converted.data,
              hash |-> calculateHash(converted.data),
              serverCount |-> IF src.shape = "toolhive"
                              THEN Cardinality(src.names \ RemoteNames) ELSE 0,
              format |-> targetFormat]

\* Sync reads the source ConfigMap src (NoBytes when it does not exist); get
\* is the outcome of the cluster read ("ok" or "error")
Sync(spec, src, get) ==
    LET v == Validate(spec)
        targetFormat == IF spec.format = "" THEN RegistryFormatToolHive ELSE spec.format
        detected == DetectFormat(src)
        sourceFormat == IF detected = "" THEN targetFormat ELSE detected
        converted == IF sourceFormat # targetFormat
                     THEN Convert(src, sourceFormat, targetFormat)
                     ELSE [err |-> FALSE, data |-> src]
    IN  IF v # NoError THEN NoSyncResult(v)
        ELSE IF get = "error"
            THEN NoSyncResult(HandlerError("failed to fetch ConfigMap", "api error"))
        ELSE IF src = NoBytes
            THEN NoSyncResult([text |-> "ConfigMap not found", name |-> spec.cmName,
                               ns |-> RegNamespace, wraps |-> "source not found"])
        ELSE IF src.shape = "notjson"
            THEN NoSyncResult(HandlerError("invalid JSON in ConfigMap key", "invalid data format"))
        ELSE IF converted.err
            THEN NoSyncResult(HandlerError("failed to convert", "conversion"))
        ELSE [err |-> NoError,
              data |-> converted.data,
              hash |-> calculateHash(src),
              serverCount |-> IF src.shape = "toolhive"
                              THEN Cardinality(src.names \ RemoteNames) ELSE 0,
              format |-> targetFormat]

\* ---------------------------------------------------------- storage manager
\* one storage name for every declaration
getStorageConfigMapNameShared(registryName) == "registry-storage"

\* getStorageConfigMapName(registry), by the declaration's name
getStorageConfigMapNameOf(registryName) == registryName \o "-registry-storage"

getStorageConfigMapName == getStorageConfigMapNameOf(RegName)

NoArtifact ==
    [exists |-> FALSE, name |-> "", namespace |-> "", key |-> "", data |-> NoBytes,
     owner |-> ""]

\* Store that leaves the data of an existing ConfigMap as it is
StoreKeepingData(artifact, data, io) ==
    IF io = "error" THEN [err |-> TRUE, artifact |-> artifact]
    ELSE IF ~artifact.exists
        THEN [err |-> FALSE,
              artifact |-> [exists |-> TRUE, name |-> getStorageConfigMapName,
                            namespace |-> RegNamespace, key |-> StorageConfigMapKeyData,
                            data |-> data, owner |-> RegName]]
    ELSE [err |-> FALSE, artifact |-> [artifact EXCEPT !.key = StorageConfigMapKeyData]]

\* Store: io is the outcome of the cluster calls ("ok" or "error")
Store(artifact, data, io) ==
    IF io = "error" THEN [err |-> TRUE, artifact |-> artifact]
    ELSE IF ~artifact.exists
        THEN [err |-> FALSE,
              artifact |-> [exists |-> TRUE, name |-> getStorageConfigMapName,
                            namespace |-> RegNamespace, key |-> StorageConfigMapKeyData,
                            data |-> data, owner |-> RegName]]
    ELSE [err |-> FALSE,
          artifact |-> [artifact EXCEPT !.key = StorageConfigMapKeyData, !.data = data]]

\* Get: the bytes under the storage key; notFound tells the error that wraps
\* the cluster's not-found
Get(artifact, io) ==
    IF io = "error" THEN [err |-> TRUE, notFound |-> FALSE, data |-> NoBytes]
    ELSE IF ~artifact.exists THEN [err |-> TRUE, notFound |-> TRUE, data |-> NoBytes]
    ELSE IF artifact.key # StorageConfigMapKeyData
        THEN [err |-> TRUE, notFound |-> FALSE, data |-> NoBytes]
    ELSE [err |-> FALSE, notFound |-> FALSE, data |-> artifact.data]

\* Delete returning the cluster's not-found as an error
DeleteFailingOnNotFound(artifact, io) ==
    IF io = "error" \/ ~artifact.exists THEN [err |-> TRUE, artifact |-> artifact]
    ELSE [err |-> FALSE, artifact |-> NoArtifact]

\* Delete: not-found is not an error
Delete(artifact, io) ==
    IF io = "error" THEN [err |-> TRUE, artifact |-> artifact]
    ELSE [err |-> FALSE, artifact |-> NoArtifact]

\* GetStorageReference naming the source's key in place of the storage key
GetStorageReferenceOfSourceKey ==
    << [type |-> "configmap", name |-> getStorageConfigMapName,
        namespace |-> RegNamespace, key |-> "registry"] >>

GetStorageReference ==
    << [type |-> "configmap", name |-> getStorageConfigMapName,
        namespace |-> RegNamespace, key |-> StorageConfigMapKeyData] >>


\* ------------------------------------------------------------ filter engine
IsValidGlob(pattern) == pattern # "["
\* the patterns in use: "*", "f*" (the names that begin with f) and names
GlobMatch(pattern, name) ==
    \/ pattern = "*"
    \/ pattern = "f*" /\ name \in {"filesystem", "fetch"}
    \/ pattern = name

\* the decision with tags.include as a conjunction: every included tag
RetainedWithEveryTag(filter, n) ==
    /\ filter.include # {} => \E pt \in filter.include : GlobMatch(pt, n)
    /\ \A pt \in filter.exclude : ~GlobMatch(pt, n)
    /\ filter.tagInclude \subseteq ServerTags(n)
    /\ filter.tagExclude \cap ServerTags(n) = {}

\* tags.include retains a server that carries at least one of the included
\* tags (TestEndToEndFilteringIntegration, "Complex Combined Filter")
Retained(filter, n) ==
    /\ filter.include # {} => \E pt \in filter.include : GlobMatch(pt, n)
    /\ \A pt \in filter.exclude : ~GlobMatch(pt, n)
    /\ filter.tagInclude # {} => filter.tagInclude \cap ServerTags(n) # {}
    /\ filter.tagExclude \cap ServerTags(n) = {}

\* a filter that empties a registry of fewer than two servers
ApplyFiltersEmptyingSingletons(data, filter) ==
    IF \E pt \in filter.include \cup filter.exclude : ~IsValidGlob(pt)
    THEN [err |-> TRUE, data |-> NoBytes]
    ELSE [err |-> FALSE,
          data |-> [data EXCEPT !.names =
                      IF Cardinality(data.names) < 2 THEN {}
                      ELSE {n \in data.names : Retained(filter, n)}]]

ApplyFilters(data, filter) ==
    IF \E pt \in filter.include \cup filter.exclude : ~IsValidGlob(pt)
    THEN [err |-> TRUE, data |-> NoBytes]
    ELSE [err |-> FALSE,
          data |-> [data EXCEPT !.names = {n \in data.names : Retained(filter, n)}]]

\* applyFilteringIfConfigured: a declaration without filter keeps the
\* fetched registry
applyFilteringIfConfigured(data, filter) ==
    IF filter.set THEN ApplyFilters(data, filter) ELSE [err |-> FALSE, data |-> data]

\* -------------------------------------------------------------- API manager
\* the API resources of the declaration: the names of its Deployment and of
\* its Service, "" for one that does not exist
NoAPI == [deployment |-> "", service |-> ""]

\* buildResourceName(registry, component), by the declaration's name
buildResourceNameOf(registryName, component) == registryName \o "-" \o component

buildResourceName(component) == buildResourceNameOf(RegName, component)

\* ReconcileRegistryAPI: the Deployment is created or updated, then the Service
\* the URL ReconcileRegistryAPI returns, port RegistryAPIServicePort
buildAPIEndpoint ==
    "http://" \o buildResourceName("api") \o "." \o RegNamespace \o ".svc.cluster.local:80"

ReconcileRegistryAPI(res, io) ==
    IF io.dep = "error" THEN [err |-> TRUE, api |-> res]
    ELSE IF io.svc = "error"
        THEN [err |-> TRUE, api |-> [res EXCEPT !.deployment = buildResourceName("api")]]
    ELSE [err |-> FALSE,
          api |-> [deployment |-> buildResourceName("api"),
                   service |-> buildResourceName("api")]]

\* DeleteRegistryAPI: the Deployment is deleted, then the Service; not-found
\* is not an error
DeleteRegistryAPI(res, io) ==
    IF io.dep = "error" THEN [err |-> TRUE, api |-> res]
    ELSE IF io.svc = "error" THEN [err |-> TRUE, api |-> [res EXCEPT !.deployment = ""]]
    ELSE [err |-> FALSE, api |-> NoAPI]

\* ------------------------------------------------------------- sync manager
\* factory of source handlers: only the ConfigMap handler is registered
CreateHandler(type) == type = ConfigMapSourceType

\* FetchRegistry of the created handler: the ConfigMap handler's Sync, with
\* the servers and remote servers of the fetched registry counted together
CountServers(r) ==
    IF r.err # NoError THEN r
    ELSE [r EXCEPT !.serverCount = Cardinality(r.data.names)]

FetchRegistry(spec, src, get) == CountServers(Sync(spec, src, get))

\* hash of the source as it is now, for change detection; errs when the
\* source cannot be read
CurrentHash(spec, src, get) ==
    IF get = "error" \/ src = NoBytes \/ Validate(spec) # NoError
    THEN [err |-> TRUE, hash |-> EmptyHash]
    ELSE [err |-> FALSE, hash |-> calculateHash(src)]

IsDataChanged(st, spec, src, get) ==
    LET h == CurrentHash(spec, src, get)
    IN  [err |-> h.err, changed |-> h.err \/ h.hash # st.lastSyncHash]

IsManualSyncRequested(st, trigger) ==
    trigger # "" /\ trigger # st.lastManualSyncTrigger

IsManualSync(reason) == reason \in {ReasonManualWithChanges, ReasonManualNoChanges}

ParseInterval(spec) == DefaultSyncInterval

Decision(sync, reason, next, err) ==
    [sync |-> sync, reason |-> reason, next |-> next, err |-> err]

\* ShouldSync that compares the retry time the wrong way round
ShouldSyncAfterRetryTime(st, spec, trigger, src, now, get) ==
    LET dc == IsDataChanged(st, spec, src, get)
    IN  IF st.phase = "Syncing" THEN Decision(FALSE, ReasonAlreadyInProgress, NoTime, FALSE)
        ELSE IF st.phase # "Ready" THEN
            IF st.phase = "Failed" /\ st.nextRetryTime # NoTime /\ now > st.nextRetryTime
            THEN Decision(FALSE, ReasonRetryBackoffActive, st.nextRetryTime, FALSE)
            ELSE Decision(TRUE, ReasonRegistryNotReady, NoTime, FALSE)
        ELSE IF dc.err THEN Decision(TRUE, ReasonErrorCheckingChanges, NoTime, TRUE)
        ELSE IF IsManualSyncRequested(st, trigger) THEN
            IF dc.changed THEN Decision(TRUE, ReasonManualWithChanges, NoTime, FALSE)
            ELSE Decision(TRUE, ReasonManualNoChanges, NoTime, FALSE)
        ELSE IF dc.changed THEN Decision(TRUE, ReasonSourceDataChanged, NoTime, FALSE)
        ELSE IF spec.syncPolicy # ""
            THEN Decision(FALSE, ReasonUpToDateWithPolicy, now + ParseInterval(spec), FALSE)
        ELSE Decision(FALSE, ReasonUpToDateNoPolicy, NoTime, FALSE)

\* ShouldSync that looks at the data change before the manual trigger
ShouldSyncChangesBeforeTrigger(st, spec, trigger, src, now, get) ==
    LET dc == IsDataChanged(st, spec, src, get)
    IN  IF st.phase = "Syncing" THEN Decision(FALSE, ReasonAlreadyInProgress, NoTime, FALSE)
        ELSE IF st.phase # "Ready" THEN
            IF st.phase = "Failed" /\ st.nextRetryTime # NoTime /\ now < st.nextRetryTime
            THEN Decision(FALSE, ReasonRetryBackoffActive, st.nextRetryTime, FALSE)
            ELSE Decision(TRUE, ReasonRegistryNotReady, NoTime, FALSE)
        ELSE IF dc.err THEN Decision(TRUE, ReasonErrorCheckingChanges, NoTime, TRUE)
        ELSE IF dc.changed THEN Decision(TRUE, ReasonSourceDataChanged, NoTime, FALSE)
        ELSE IF IsManualSyncRequested(st, trigger)
            THEN Decision(TRUE, ReasonManualNoChanges, NoTime, FALSE)
        ELSE IF spec.syncPolicy # ""
            THEN Decision(FALSE, ReasonUpToDateWithPolicy, now + ParseInterval(spec), FALSE)
        ELSE Decision(FALSE, ReasonUpToDateNoPolicy, NoTime, FALSE)

ShouldSync(st, spec, trigger, src, now, get) ==
    LET dc == IsDataChanged(st, spec, src, get)
    IN  IF st.phase = "Syncing" THEN Decision(FALSE, ReasonAlreadyInProgress, NoTime, FALSE)
        ELSE IF st.phase # "Ready" THEN
            IF st.phase = "Failed" /\ st.nextRetryTime # NoTime /\ now < st.nextRetryTime
            THEN Decision(FALSE, ReasonRetryBackoffActive, st.nextRetryTime, FALSE)
            ELSE Decision(TRUE, ReasonRegistryNotReady, NoTime, FALSE)
        ELSE IF dc.err THEN Decision(TRUE, ReasonErrorCheckingChanges, NoTime, TRUE)
        ELSE IF IsManualSyncRequested(st, trigger) THEN
            IF dc.changed THEN Decision(TRUE, ReasonManualWithChanges, NoTime, FALSE)
            ELSE Decision(TRUE, ReasonManualNoChanges, NoTime, FALSE)
        ELSE IF dc.changed THEN Decision(TRUE, ReasonSourceDataChanged, NoTime, FALSE)
        ELSE IF spec.syncPolicy # ""
            THEN Decision(FALSE, ReasonUpToDateWithPolicy, now + ParseInterval(spec), FALSE)
        ELSE Decision(FALSE, ReasonUpToDateNoPolicy, NoTime, FALSE)

Min(a, b) == IF a < b THEN a ELSE b

\* exponent := min(syncAttempts-1, 4)
retryExponent(syncAttempts) == Min(syncAttempts - 1, 4)

\* the backoff with the exponent one too high: 10m after the first attempt
calculateRetryIntervalFromAttempts(syncAttempts) ==
    LET baseInterval == 5 * 60
        maxInterval == 1 * Hour
    IN  IF syncAttempts <= 0 THEN baseInterval
        ELSE Min(baseInterval * (2 ^ Min(syncAttempts, 4)), maxInterval)

calculateRetryInterval(syncAttempts) ==
    LET baseInterval == 5 * 60
        maxInterval == 1 * Hour
        exponent == retryExponent(syncAttempts)
    IN  IF syncAttempts <= 0 THEN baseInterval
        ELSE Min(baseInterval * (2 ^ exponent), maxInterval)

SetStatusCondition(conds, type, status, reason) ==
    [conds EXCEPT ![type] = [status |-> status, reason |-> reason]]

\* A handler run works on c: m is the object in memory, p the persisted
\* status, w the status writes made so far, in order.
Ctx(m, p, w) == [m |-> m, p |-> p, w |-> w]

\* io: "ok", "getfail" (the refresh read fails) or "updfail" (the write fails)
updatePhaseFailedWithCondition(c, message, conditionType, reason, io) ==
    IF io = "getfail" THEN c
    ELSE LET m1 == [c.p EXCEPT !.phase = "Failed",
                               !.message = message,
                               !.syncAttempts = @ + 1,
                               !.conds = SetStatusCondition(@, conditionType, "False", reason)]
         IN  IF io = "updfail" THEN Ctx(m1, c.p, c.w)
             ELSE Ctx(m1, m1, Append(c.w, m1))

SyncData(time, hash, count, ref, attempts, retry, trigger) ==
    [LastSyncTime |-> time, LastSyncHash |-> hash, ServerCount |-> count,
     StorageRef |-> ref, SyncAttempts |-> attempts, NextRetryTime |-> retry,
     LastManualSyncTrigger |-> trigger]

StatusUpdate(phase, message, conditions, syncData, retryResult) ==
    [Phase |-> phase, Message |-> message, Conditions |-> conditions,
     SyncData |-> syncData, RetryResult |-> retryResult]

FailedUpdate(message, condType, reason, attempts, retry, result) ==
    StatusUpdate("Failed", message,
                 << [type |-> condType, status |-> "False", reason |-> reason] >>,
                 SyncData(NoTime, EmptyHash, 0, NilRef, attempts, retry, ""), result)

RECURSIVE ApplyConditions(_, _)
ApplyConditions(conds, list) ==
    IF list = <<>> THEN conds
    ELSE ApplyConditions(
            SetStatusCondition(conds, Head(list).type, Head(list).status, Head(list).reason),
            Tail(list))

\* applyFinalStatusUpdate assigning every field of the sync data, set or not
applyFinalStatusUpdateAssigningAll(c, update, io) ==
    IF io = "getfail" THEN [c |-> c, result |-> NoResult, err |-> TRUE]
    ELSE LET d == update.SyncData
             m1 == [c.p EXCEPT
                      !.phase = update.Phase,
                      !.message = update.Message,
                      !.lastSyncTime = d.LastSyncTime,
                      !.lastSyncHash = d.LastSyncHash,
                      !.serverCount = d.ServerCount,
                      !.storageRef = d.StorageRef,
                      !.lastManualSyncTrigger = d.LastManualSyncTrigger,
                      !.nextRetryTime = d.NextRetryTime,
                      !.syncAttempts = d.SyncAttempts,
                      !.conds = ApplyConditions(@, update.Conditions)]
         IN  IF io = "updfail"
             THEN [c |-> Ctx(m1, c.p, c.w), result |-> NoResult, err |-> TRUE]
             ELSE [c |-> Ctx(m1, m1, Append(c.w, m1)),
                   result |-> update.RetryResult, err |-> FALSE]

\* applyFinalStatusUpdate with syncAttempts guarded like the fields above it
applyFinalStatusUpdateGuardingAttempts(c, update, io) ==
    IF io = "getfail" THEN [c |-> c, result |-> NoResult, err |-> TRUE]
    ELSE LET d == update.SyncData
             m1 == [c.p EXCEPT
                      !.phase = update.Phase,
                      !.message = update.Message,
                      !.lastSyncTime = IF d.LastSyncTime # NoTime THEN d.LastSyncTime ELSE @,
                      !.lastSyncHash = IF d.LastSyncHash # EmptyHash THEN d.LastSyncHash ELSE @,
                      !.serverCount = IF d.ServerCount > 0 THEN d.ServerCount ELSE @,
                      !.storageRef = IF d.StorageRef # NilRef THEN d.StorageRef ELSE @,
                      !.lastManualSyncTrigger =
                          IF d.LastManualSyncTrigger # "" THEN d.LastManualSyncTrigger ELSE @,
                      !.nextRetryTime = d.NextRetryTime,
                      !.syncAttempts = IF d.SyncAttempts > 0 THEN d.SyncAttempts ELSE @,
                      !.conds = ApplyConditions(@, update.Conditions)]
         IN  IF io = "updfail"
             THEN [c |-> Ctx(m1, c.p, c.w), result |-> NoResult, err |-> TRUE]
             ELSE [c |-> Ctx(m1, m1, Append(c.w, m1)),
                   result |-> update.RetryResult, err |-> FALSE]

applyFinalStatusUpdate(c, update, io) ==
    IF io = "getfail" THEN [c |-> c, result |-> NoResult, err |-> TRUE]
    ELSE LET d == update.SyncData
             m1 == [c.p EXCEPT
                      !.phase = update.Phase,
                      !.message = update.Message,
                      !.lastSyncTime = IF d.LastSyncTime # NoTime THEN d.LastSyncTime ELSE @,
                      !.lastSyncHash = IF d.LastSyncHash # EmptyHash THEN d.LastSyncHash ELSE @,
                      !.serverCount = IF d.ServerCount > 0 THEN d.ServerCount ELSE @,
                      !.storageRef = IF d.StorageRef # NilRef THEN d.StorageRef ELSE @,
                      !.lastManualSyncTrigger =
                          IF d.LastManualSyncTrigger # "" THEN d.LastManualSyncTrigger ELSE @,
                      !.nextRetryTime = d.NextRetryTime,
                      !.syncAttempts = d.SyncAttempts,
                      !.conds = ApplyConditions(@, update.Conditions)]
         IN  IF io = "updfail"
             THEN [c |-> Ctx(m1, c.p, c.w), result |-> NoResult, err |-> TRUE]
             ELSE [c |-> Ctx(m1, m1, Append(c.w, m1)),
                   result |-> update.RetryResult, err |-> FALSE]


\* ReadyConditions without the DataValid condition
ReadyConditionsWithoutDataValid ==
    << [type |-> "SourceAvailable", status |-> "True", reason |-> "SourceReady"],
       [type |-> "SyncSuccessful", status |-> "True", reason |-> "SyncCompleted"] >>

ReadyConditions ==
    << [type |-> "SourceAvailable", status |-> "True", reason |-> "SourceReady"],
       [type |-> "DataValid", status |-> "True", reason |-> "DataValid"],
       [type |-> "SyncSuccessful", status |-> "True", reason |-> "SyncCompleted"] >>

\* what a PerformSync run did: step is the step that failed ("" on success),
\* block the branch of PerformSync that composed the final update
\* calls names the cluster calls the run made
SyncRun(c, result, err, step, block, gaveUp, artifact, stored, calls) ==
    [c |-> c, result |-> result, err |-> err, step |-> step, block |-> block,
     gaveUp |-> gaveUp, artifact |-> artifact, stored |-> stored, calls |-> calls]

Finish(f, step, block, gaveUp, artifact, stored, calls) ==
    SyncRun(f.c, f.result, f.err, step, block, gaveUp, artifact, stored, calls)

\* the steps of fetchAndProcessRegistryData on the registry the handler
\* fetched
fetchAndProcessSteps(c, spec, fetched, io) ==
    LET filtered == IF spec.filter.set THEN ApplyFilters(fetched.data, spec.filter)
                    ELSE [err |-> FALSE, data |-> fetched.data]
    IN  IF ~CreateHandler(spec.sourceType)
        THEN [step |-> "handler", fetchResult |-> fetched,
              c |-> updatePhaseFailedWithCondition(c, "Failed to create source handler",
                        "SourceAvailable", "HandlerCreationFailed", io.w1)]
        ELSE IF Validate(spec) # NoError
        THEN [step |-> "validation", fetchResult |-> fetched,
              c |-> updatePhaseFailedWithCondition(c, "Source validation failed",
                        "SourceAvailable", "ValidationFailed", io.w1)]
        ELSE IF fetched.err # NoError
        THEN [step |-> "fetch", fetchResult |-> fetched,
              c |-> updatePhaseFailedWithCondition(
                        [c EXCEPT !.m.syncAttempts = @ + 1], "Fetch failed",
                        "SyncSuccessful", "FetchFailed", io.w1)]
        ELSE IF filtered.err
        THEN [step |-> "filter", fetchResult |-> fetched,
              c |-> updatePhaseFailedWithCondition(c, "Filtering failed",
                        "SyncSuccessful", "FetchFailed", io.w1)]
        ELSE [step |-> "", c |-> c,
              fetchResult |-> [fetched EXCEPT !.data = filtered.data,
                                              !.serverCount = Cardinality(filtered.data.names)]]

fetchAndProcessRegistryData(c, spec, src, io) ==
    fetchAndProcessSteps(c, spec, FetchRegistry(spec, src, io.f1), io)

\* The branch taken when a step fails: give up at the limit, else schedule
\* the retry after interval
FailureBranch(c, now, limit, interval, message, condType, reason, io) ==
    LET attempts == c.m.syncAttempts
    IN  IF attempts >= limit
        THEN applyFinalStatusUpdate(c,
                FailedUpdate(message \o " after attempts", condType, reason,
                             attempts + 1, NoTime, NoResult), io)
        ELSE applyFinalStatusUpdate(c,
                FailedUpdate(message, condType, reason,
                             attempts + 1, now + interval, RequeueAfter(interval)), io)

\* The body of PerformSync as the file has it, first being what the call of
\* fetchAndProcessRegistryData returned and fetchResult what the fetch of the
\* body, which assigns fetchResult anew, returned: the error branch of the
\* call, then the validation, fetch, store and success steps
PerformSyncSteps(c0, first, fetchResult, spec, trigger, artifact, now, io) ==
    LET st == Store(artifact, fetchResult.data, io.st)
    IN  IF first.step # ""
        THEN Finish(FailureBranch(first.c, now, MaxHandlerCreationRetries, Hour,
                        "Failed to create source handler",
                        "SourceAvailable", "HandlerCreationFailed", io.w2),
                    first.step, "handler",
                    first.c.m.syncAttempts >= MaxHandlerCreationRetries, artifact, FALSE,
                    IF first.step \in {"handler", "validation"}
                    THEN {"w1", "w2"} ELSE {"f1", "w1", "w2"})
        ELSE IF Validate(spec) # NoError
        THEN Finish(FailureBranch(c0, now, MaxValidationRetries, Hour,
                        "Source validation failed",
                        "SourceAvailable", "ValidationFailed", io.w2),
                    "validation", "validation",
                    c0.m.syncAttempts >= MaxValidationRetries, artifact, FALSE,
                    {"f1", "w2"})
        ELSE IF fetchResult.err # NoError
        THEN Finish(FailureBranch(c0, now, MaxSyncAttempts,
                        calculateRetryInterval(c0.m.syncAttempts), "Fetch failed",
                        "SyncSuccessful", "FetchFailed", io.w2),
                    "fetch", "fetch", c0.m.syncAttempts >= MaxSyncAttempts, artifact, FALSE,
                    {"f1", "f2", "w2"})
        ELSE IF st.err
        THEN Finish(FailureBranch(c0, now, MaxSyncAttempts,
                        calculateRetryInterval(c0.m.syncAttempts), "Storage failed",
                        "SyncSuccessful", "StorageFailed", io.w2),
                    "store", "store", c0.m.syncAttempts >= MaxSyncAttempts, artifact, FALSE,
                    {"f1", "f2", "st", "w2"})
        ELSE Finish(applyFinalStatusUpdate(c0,
                        StatusUpdate("Ready", "Registry is ready and synchronized",
                            ReadyConditions,
                            SyncData(now, fetchResult.hash, fetchResult.serverCount,
                                     GetStorageReference, 0, NoTime, trigger),
                            NoResult), io.w2),
                    "", "success", FALSE, st.artifact, TRUE, {"f1", "f2", "st", "w2"})

\* PerformSync that stores what it fetched before it looks at any failure
PerformSyncStoringFetched(p0, spec, trigger, src, artifact, now, io) ==
    PerformSyncSteps(Ctx(p0, p0, <<>>),
                     fetchAndProcessRegistryData(Ctx(p0, p0, <<>>), spec, src, io),
                     FetchRegistry(spec, src, io.f2),
                     spec, trigger,
                     Store(artifact, FetchRegistry(spec, src, io.f1).data, "ok").artifact,
                     now, io)

PerformSync(p0, spec, trigger, src, artifact, now, io) ==
    PerformSyncSteps(Ctx(p0, p0, <<>>),
                     fetchAndProcessRegistryData(Ctx(p0, p0, <<>>), spec, src, io),
                     FetchRegistry(spec, src, io.f2),
                     spec, trigger, artifact, now, io)

\* UpdateManualSyncTriggerOnly that also reports the manual sync in the message
UpdateManualSyncTriggerOnlySettingMessage(p0, trigger, io) ==
    LET m1 == [p0 EXCEPT !.lastManualSyncTrigger = IF trigger # "" THEN trigger ELSE @,
                         !.message = "Manual sync completed"]
    IN  IF io = "ok"
        THEN [c |-> Ctx(m1, m1, << m1 >>), result |-> NoResult, err |-> FALSE]
        ELSE [c |-> Ctx(p0, p0, <<>>), result |-> NoResult, err |-> TRUE]

UpdateManualSyncTriggerOnly(p0, trigger, io) ==
    LET m1 == [p0 EXCEPT !.lastManualSyncTrigger = IF trigger # "" THEN trigger ELSE @]
    IN  IF io = "ok"
        THEN [c |-> Ctx(m1, m1, << m1 >>), result |-> NoResult, err |-> FALSE]
        ELSE [c |-> Ctx(p0, p0, <<>>), result |-> NoResult, err |-> TRUE]


\* ---------------------------------------------------------- status manager
setCondition(conds, type, status, reason) ==
    [conds EXCEPT ![type] = [status |-> status, reason |-> reason]]

updateConditionsForError(conds, err) ==
    LET failed == setCondition(conds, "SyncSuccessful", "False", "SyncFailed")
        Reason == IF err.name # ""
                  THEN << err.text, err.name, err.ns >> ELSE << err.text >>
    IN  IF err.wraps = "plain" THEN failed
        ELSE IF Reason \in { << "ConfigMap not found", "registry-data", "toolhive-system" >>,
                             << "source not found" >> }
            THEN setCondition(
                    setCondition(conds, "SourceAvailable", "False", "ConfigMapNotFound"),
                    "SyncSuccessful", "False", "SyncFailed")
        ELSE IF Reason = << "invalid data format" >>
            THEN setCondition(
                    setCondition(
                        setCondition(conds, "SourceAvailable", "True", "SourceFound"),
                        "DataValid", "False", "InvalidJSON"),
                    "SyncSuccessful", "False", "SyncFailed")
        ELSE IF Reason = << "validation failed" >>
            THEN setCondition(
                    setCondition(conds, "DataValid", "False", "ValidationFailed"),
                    "SyncSuccessful", "False", "SyncFailed")
        ELSE failed

\* the write of the status manager: the copy replaces the persisted status;
\* io is "ok" or "updfail"
StatusWrite(c, updated, io) ==
    IF io # "ok" THEN [c |-> c, err |-> TRUE]
    ELSE [c |-> Ctx(updated, updated, Append(c.w, updated)), err |-> FALSE]

\* result is NoSyncResult(syncErr) when the sync failed
UpdateSyncStatus(c, result, syncErr, now, io) ==
    LET updated ==
            IF syncErr # NoError
            THEN [c.m EXCEPT !.phase = "Failed",
                             !.message = "Sync failed",
                             !.syncAttempts = @ + 1,
                             !.conds = updateConditionsForError(@, syncErr)]
            ELSE [c.m EXCEPT !.phase = "Ready",
                             !.message = "Successfully synced servers",
                             !.lastSyncTime = now,
                             !.lastSyncHash = result.hash,
                             !.serverCount = result.serverCount,
                             !.syncAttempts = 0,
                             !.conds = setCondition(
                                         setCondition(
                                           setCondition(@, "SourceAvailable", "True",
                                                        "SourceFound"),
                                           "DataValid", "True", "DataValid"),
                                         "SyncSuccessful", "True", "SyncSuccessful")]
    IN  StatusWrite(c, updated, io)

UpdatePhase(c, phase, message, io) ==
    IF c.m.phase = phase /\ c.m.message = message THEN [c |-> c, err |-> FALSE]
    ELSE StatusWrite(c, [c.m EXCEPT !.phase = phase, !.message = message], io)

UpdateStorageReference(c, storageRef, io) ==
    StatusWrite(c, [c.m EXCEPT !.storageRef = storageRef,
                               !.conds = setCondition(@, "StorageReady", "True",
                                                      "StorageReady")], io)

ShouldRetry(spec, st) ==
    LET maxAttempts == 3
    IN  IF spec.syncPolicy = "" \/ ~spec.retryPolicy THEN FALSE
        ELSE st.syncAttempts < maxAttempts

GetRetryDelay(spec, st) ==
    LET baseDelay == 30
        multiplier == 2
        attempts == st.syncAttempts
        delay == baseDelay * (multiplier ^ (attempts - 1))
    IN  IF spec.syncPolicy = "" \/ ~spec.retryPolicy THEN 30
        ELSE IF attempts = 0 THEN baseDelay
        ELSE IF delay > 5 * 60 THEN 5 * 60
        ELSE delay

\* ---------------------------------------- reconciler of the status manager
validateSource(spec) ==
    IF spec.sourceType # ConfigMapSourceType
    THEN PlainError("unsupported source type")
    ELSE Validate(spec)

hasManualSyncTrigger(trigger) == trigger # ""

getSyncInterval(spec) == DefaultSyncInterval

shouldAutoSync(spec, st, now) ==
    IF st.lastSyncTime = NoTime THEN TRUE
    ELSE now > st.lastSyncTime + getSyncInterval(spec)

shouldSync(spec, st, trigger, now) ==
    IF st.phase = "Pending" \/ st.phase = "Failed" THEN TRUE
    ELSE IF hasManualSyncTrigger(trigger) THEN TRUE
    ELSE IF spec.syncPolicy = "automatic" THEN shouldAutoSync(spec, st, now)
    ELSE FALSE

scheduleNextSync(spec) ==
    IF spec.syncPolicy # "automatic" THEN NoResult
    ELSE RequeueAfter(getSyncInterval(spec))

Ran(c, result, err, step, path, artifact, stored, calls) ==
    [c |-> c, result |-> result, err |-> err, step |-> step, path |-> path,
     artifact |-> artifact, stored |-> stored, calls |-> calls]

\* the steps of syncRegistry, result being what the handler's Sync returned
syncRegistrySteps(c, spec, trigger, result, artifact, now, io, made) ==
    LET v == validateSource(spec)
        afterV == UpdateSyncStatus(c, NoSyncResult(v), v, now, io.w4).c
        syncing == UpdatePhase(c, "Syncing", "Syncing registry data", io.w2)
        c2 == syncing.c
        calls2 == made \cup (IF c.m.phase = "Syncing" /\ c.m.message = "Syncing registry data"
                             THEN {} ELSE {"w2"})
        afterS == UpdateSyncStatus(c2, result, result.err, now, io.w4).c
        st == Store(artifact, result.data, io.st)
        stErr == PlainError("failed to store registry data")
        afterSt == UpdateSyncStatus(c2, NoSyncResult(stErr), stErr, now, io.w4).c
        ref == UpdateStorageReference(c2, GetStorageReference, io.w3)
        final == UpdateSyncStatus(ref.c, result, NoError, now, io.w4)
    IN  IF v # NoError
        THEN Ran(afterV, RequeueAfter(GetRetryDelay(spec, afterV.m)), FALSE,
                 "validation", "sync", artifact, FALSE, made \cup {"w4"})
        ELSE IF ~shouldSync(spec, c.m, trigger, now)
        THEN Ran(c, scheduleNextSync(spec), FALSE, "", "nosync", artifact, FALSE, made)
        ELSE IF syncing.err
        THEN Ran(c2, NoResult, TRUE, "", "sync", artifact, FALSE, calls2)
        ELSE IF result.err # NoError
        THEN Ran(afterS, RequeueAfter(GetRetryDelay(spec, afterS.m)), FALSE,
                 "fetch", "sync", artifact, FALSE, calls2 \cup {"f1", "w4"})
        ELSE IF result.hash = c2.m.lastSyncHash /\ c2.m.phase = "Ready"
        THEN Ran(c2, scheduleNextSync(spec), FALSE, "", "unchanged", artifact, FALSE,
                 calls2 \cup {"f1"})
        ELSE IF st.err
        THEN Ran(afterSt, RequeueAfter(GetRetryDelay(spec, afterSt.m)), FALSE,
                 "store", "sync", artifact, FALSE, calls2 \cup {"f1", "st", "w4"})
        ELSE IF ref.err
        THEN Ran(ref.c, NoResult, TRUE, "", "sync", st.artifact, TRUE,
                 calls2 \cup {"f1", "st", "w3"})
        ELSE IF final.err
        THEN Ran(final.c, NoResult, TRUE, "", "sync", st.artifact, TRUE,
                 calls2 \cup {"f1", "st", "w3", "w4"})
        ELSE Ran(final.c, scheduleNextSync(spec), FALSE, "", "sync", st.artifact, TRUE,
                 calls2 \cup {"f1", "st", "w3", "w4"})

syncRegistry(c, spec, trigger, src, artifact, now, io, made) ==
    syncRegistrySteps(c, spec, trigger, Sync(spec, src, io.f1), artifact, now, io, made)

\* Reconcile of a declaration that carries the finalizer and is not deleted
Reconcile(p0, spec, trigger, src, artifact, now, io) ==
    LET c0 == Ctx(p0, p0, <<>>)
        pending == UpdatePhase(c0, "Pending", "Initializing registry", io.w1)
    IN  IF p0.phase = "" /\ pending.err
        THEN Ran(c0, NoResult, TRUE, "", "init", artifact, FALSE, {"w1"})
        ELSE syncRegistry(IF p0.phase # "" THEN c0 ELSE pending.c,
                          spec, trigger, src, artifact, now, io,
                          IF p0.phase # "" THEN {} ELSE {"w1"})


\* ------------------------------------------------------------------- state
VARIABLES
    controller,   \* the build that runs: "syncmanager" or "statusmanager"
    spec,         \* the declaration's spec
    meta,         \* the declaration's metadata: existence, finalizer, deletion, trigger annotation
    status,       \* the declaration's persisted status
    source,       \* the bytes of the source ConfigMap, NoBytes when it does not exist
    storage,      \* the storage artifact
    api,          \* the API resources of the declaration
    now,          \* the clock
    used,         \* cluster-call failures and source edits so far
    streak,       \* failed PerformSync runs since the last successful one
    last          \* what the last step did

vars == << controller, spec, meta, status, source, storage, api, now, used, streak, last >>

WriteOutcomes == {"ok", "getfail", "updfail"}
CallOutcomes == {"ok", "error"}
IOFields == {"w1", "w2", "w3", "w4", "f1", "f2", "st", "get", "dep", "svc"}
\* outcomes of the cluster calls of one handler run: w1..w4 the writes of the
\* declaration in order, f1 and f2 the reads of the source, st the calls on
\* the storage artifact, get the read of the change detection, dep and svc
\* the calls on the API Deployment and Service
AllOk == [f \in IOFields |-> "ok"]
Outcomes(f) == IF f \in {"w1", "w2", "w3", "w4"} THEN WriteOutcomes ELSE CallOutcomes
\* the outcomes with at most n failed calls, all among calls
RECURSIVE IOs(_, _)
IOs(n, calls) ==
    IF n <= 0 THEN {AllOk}
    ELSE IOs(n - 1, calls) \cup
         {[io EXCEPT ![f] = o] : io \in IOs(n - 1, calls), f \in calls,
                                 o \in WriteOutcomes \cup CallOutcomes}
Failed(io) == {f \in IOFields : io[f] # "ok"}
\* the failures of io fit the budget of failures
Affordable(io) == \A f \in IOFields : io[f] \in Outcomes(f)
Spend(io) == [used EXCEPT !.faults = @ + Cardinality(Failed(io))]

Idle(op) ==
    [op |-> op, path |-> "", reason |-> "", step |-> "", block |-> "", gaveUp |-> FALSE,
     writes |-> 0, torn |-> FALSE, result |-> NoResult, err |-> FALSE, stored |-> FALSE,
     before |-> 0]

Init ==
    /\ controller \in {"syncmanager", "statusmanager"}
    /\ spec \in DeclSpecs
    /\ meta = [exists |-> TRUE, finalizer |-> FALSE, deleting |-> FALSE, trigger |-> ""]
    /\ status = InitStatus
    /\ source \in SourcePayloads \cup {NoBytes}
    /\ storage = NoArtifact
    /\ api = NoAPI
    /\ now = 0
    /\ used = [faults |-> 0, edits |-> 0]
    /\ streak = 0
    /\ last = Idle("Init")

\* ------------------------------------------------------------- environment
\* an hour passes
Tick ==
    /\ meta.exists /\ ~meta.deleting
    /\ now + Hour <= MaxHours * Hour
    /\ now' = now + Hour
    /\ last' = Idle("Environment")
    /\ UNCHANGED << controller, spec, meta, status, source, storage, used, streak, api >>

UserEditSource ==
    /\ meta.exists /\ ~meta.deleting
    /\ used.edits < MaxEdits
    /\ \E b \in SourcePayloads \cup {NoBytes} : b # source /\ source' = b
    /\ used' = [used EXCEPT !.edits = @ + 1]
    /\ last' = Idle("Environment")
    /\ UNCHANGED << controller, spec, meta, status, storage, now, streak, api >>

UserSetTrigger ==
    /\ meta.exists /\ ~meta.deleting
    /\ \E t \in Triggers : NextTrigger(meta.trigger, t) /\ meta' = [meta EXCEPT !.trigger = t]
    /\ last' = Idle("Environment")
    /\ UNCHANGED << controller, spec, status, source, storage, now, used, streak, api >>

\* deletion request: the object stays while it carries the finalizer
UserDelete ==
    /\ meta.exists /\ ~meta.deleting
    /\ meta' = [meta EXCEPT !.deleting = TRUE, !.exists = meta.finalizer]
    /\ last' = Idle("Environment")
    /\ UNCHANGED << controller, spec, status, source, storage, now, used, streak, api >>

\* -------------------------------------------------------------- API manager
\* the API manager is asked to materialise the API service of a declaration
\* that is Ready
APIReconcile ==
    /\ meta.exists /\ ~meta.deleting /\ meta.finalizer
    /\ status.phase = "Ready"
    /\ \E io \in IOs(MaxFaults - used.faults, {"dep", "svc"}) :
       \E r \in {ReconcileRegistryAPI(api, io)} :
         /\ Affordable(io)
         /\ Failed(io) \subseteq (IF io.dep = "ok" THEN {"svc"} ELSE {"dep"})
         /\ used' = Spend(io)
         /\ api' = r.api
         /\ last' = [Idle("APIManager") EXCEPT !.err = r.err]
    /\ UNCHANGED << controller, spec, meta, status, source, storage, now, streak >>

\* ------------------------------------------- reconciler of the sync manager
\* finalizeMCPRegistry announcing the termination in the message only
TerminatingStatusKeepingPhase(st) ==
    [st EXCEPT !.message = "MCPRegistry is being terminated"]

\* the status finalizeMCPRegistry writes first
TerminatingStatus(st) ==
    [st EXCEPT !.phase = "Terminating", !.message = "MCPRegistry is being terminated"]

\* Reconcile of a declaration marked for deletion
SMFinalize ==
    /\ controller = "syncmanager" /\ meta.exists /\ meta.deleting /\ meta.finalizer
    /\ \E io \in IOs(MaxFaults - used.faults, {"w1", "w2", "st"}) :
         LET terminating == TerminatingStatus(status)
             del == Delete(storage, io.st)
         IN  /\ Affordable(io)
             /\ Failed(io) \subseteq (IF io.w1 = "ok" THEN {"st", "w2"} ELSE {"w1"})
             /\ io.w1 # "getfail" /\ io.w2 # "getfail"
             /\ used' = Spend(io)
             /\ IF io.w1 # "ok"
                THEN /\ last' = [Idle("Reconcile") EXCEPT !.path = "finalize", !.err = TRUE]
                     /\ UNCHANGED << meta, status, storage >>
                ELSE /\ status' = terminating
                     /\ storage' = del.artifact
                     /\ IF io.w2 # "ok"
                        THEN /\ meta' = meta
                             /\ last' = [Idle("Reconcile") EXCEPT !.path = "finalize",
                                           !.writes = 1, !.err = TRUE]
                        ELSE /\ meta' = [meta EXCEPT !.finalizer = FALSE, !.exists = FALSE]
                             /\ last' = [Idle("Reconcile") EXCEPT !.path = "finalize",
                                           !.writes = 1]
    /\ UNCHANGED << controller, spec, source, now, streak, api >>

\* Reconcile of a declaration that does not carry the finalizer yet
SMAddFinalizer ==
    /\ controller = "syncmanager" /\ meta.exists /\ ~meta.deleting /\ ~meta.finalizer
    /\ \E io \in IOs(MaxFaults - used.faults, {"w1"}) :
         /\ Affordable(io)
         /\ Failed(io) \subseteq {"w1"} /\ io.w1 # "getfail"
         /\ used' = Spend(io)
         /\ IF io.w1 # "ok"
            THEN /\ meta' = meta
                 /\ last' = [Idle("Reconcile") EXCEPT !.path = "addfinalizer", !.err = TRUE]
            ELSE /\ meta' = [meta EXCEPT !.finalizer = TRUE]
                 /\ last' = [Idle("Reconcile") EXCEPT !.path = "addfinalizer"]
    /\ UNCHANGED << controller, spec, status, source, storage, now, streak, api >>

\* Reconcile that reaches reconcileSync
SMReconcileSync ==
    /\ controller = "syncmanager" /\ meta.exists /\ ~meta.deleting /\ meta.finalizer
    /\ \E io \in IOs(MaxFaults - used.faults, {"w1", "w2", "f1", "f2", "st", "get"}) :
       \E d \in {ShouldSync(status, spec, meta.trigger, source, now, io.get)},
          fast \in {UpdateManualSyncTriggerOnly(status, meta.trigger, io.w1)},
          run \in {PerformSync(status, spec, meta.trigger, source, storage, now, io)} :
         LET syncNeeded == d.sync \/ d.err
             syncReason == IF d.err THEN ReasonErrorCheckingSyncNeed ELSE d.reason
             read == IF status.phase = "Ready" THEN {"get"} ELSE {}
             fallback == IF run.result.after > 0 THEN run.result.after ELSE DefaultRequeue
             result == IF run.err THEN RequeueAfter(fallback)
                       ELSE IF run.c.p.phase = "Failed" THEN RequeueAfter(fallback)
                       ELSE IF spec.syncPolicy # "" /\ ~IsManualSync(syncReason)
                            THEN RequeueAfter(ParseInterval(spec))
                       ELSE run.result
         IN  /\ Affordable(io)
             /\ used' = Spend(io)
             /\ IF ~syncNeeded
                THEN /\ Failed(io) \subseteq read
                     /\ last' = [Idle("Reconcile") EXCEPT !.path = "nosync",
                                   !.reason = syncReason,
                                   !.result = IF d.next # NoTime
                                              THEN RequeueAfter(d.next - now) ELSE NoResult]
                     /\ UNCHANGED << status, storage, streak >>
                ELSE IF syncReason = ReasonManualNoChanges
                THEN /\ Failed(io) \subseteq read \cup {"w1"}
                     /\ status' = fast.c.p
                     /\ last' = [Idle("Reconcile") EXCEPT !.path = "fastpath",
                                   !.reason = syncReason, !.writes = Len(fast.c.w),
                                   !.result = fast.result, !.err = fast.err]
                     /\ UNCHANGED << storage, streak >>
                ELSE /\ Failed(io) \subseteq read \cup run.calls
                     /\ run.step # "" => status.syncAttempts < AttemptsCap
                     /\ status' = run.c.p
                     /\ storage' = run.artifact
                     /\ streak' = IF run.step # "" THEN streak + 1
                                  ELSE IF run.err THEN streak ELSE 0
                     /\ last' = [op |-> "Reconcile", path |-> "sync", reason |-> syncReason,
                                 step |-> run.step, block |-> run.block,
                                 gaveUp |-> run.gaveUp, writes |-> Len(run.c.w),
                                 torn |-> Len(run.c.w) > 1 /\ run.c.w[1] # run.c.w[2],
                                 result |-> result, err |-> run.err,
                                 stored |-> run.stored, before |-> status.syncAttempts]
    /\ UNCHANGED << controller, spec, meta, source, now, api >>

\* ---------------------------------------- steps of the status manager build
\* handleDeletion
STHandleDeletion ==
    /\ controller = "statusmanager" /\ meta.exists /\ meta.deleting /\ meta.finalizer
    /\ \E io \in IOs(MaxFaults - used.faults, {"w1", "st"}) :
         LET del == Delete(storage, io.st)
         IN  /\ Affordable(io)
             /\ Failed(io) \subseteq (IF io.st = "ok" THEN {"w1"} ELSE {"st"})
             /\ io.w1 # "getfail"
             /\ used' = Spend(io)
             /\ storage' = del.artifact
             /\ IF del.err \/ io.w1 # "ok"
                THEN /\ meta' = meta
                     /\ last' = [Idle("Reconcile") EXCEPT !.path = "finalize", !.err = TRUE]
                ELSE /\ meta' = [meta EXCEPT !.finalizer = FALSE, !.exists = FALSE]
                     /\ last' = [Idle("Reconcile") EXCEPT !.path = "finalize"]
    /\ UNCHANGED << controller, spec, status, source, now, streak, api >>

\* Reconcile of a declaration that does not carry the finalizer yet
STAddFinalizer ==
    /\ controller = "statusmanager" /\ meta.exists /\ ~meta.deleting /\ ~meta.finalizer
    /\ \E io \in IOs(MaxFaults - used.faults, {"w1"}) :
         /\ Affordable(io)
         /\ Failed(io) \subseteq {"w1"} /\ io.w1 # "getfail"
         /\ used' = Spend(io)
         /\ IF io.w1 # "ok"
            THEN /\ meta' = meta
                 /\ last' = [Idle("Reconcile") EXCEPT !.path = "addfinalizer", !.err = TRUE]
            ELSE /\ meta' = [meta EXCEPT !.finalizer = TRUE]
                 /\ last' = [Idle("Reconcile") EXCEPT !.path = "addfinalizer",
                               !.result = [requeue |-> TRUE, after |-> 0]]
    /\ UNCHANGED << controller, spec, status, source, storage, now, streak, api >>

\* Reconcile that reaches syncRegistry
STReconcile ==
    /\ controller = "statusmanager" /\ meta.exists /\ ~meta.deleting /\ meta.finalizer
    /\ \E io \in IOs(MaxFaults - used.faults, {"w1", "w2", "w3", "w4", "f1", "st"}) :
       \E run \in {Reconcile(status, spec, meta.trigger, source, storage, now, io)} :
             /\ Affordable(io)
             /\ \A f \in Failed(io) : io[f] # "getfail"
             /\ Failed(io) \subseteq run.calls
             /\ run.step # "" => status.syncAttempts < RetryCap
             /\ used' = Spend(io)
             /\ status' = run.c.p
             /\ storage' = run.artifact
             /\ streak' = IF run.step # "" THEN streak + 1
                          ELSE IF run.path = "sync" /\ ~run.err THEN 0 ELSE streak
             /\ last' = [op |-> "Reconcile", path |-> run.path, reason |-> "",
                         step |-> run.step, block |-> "", gaveUp |-> FALSE,
                         writes |-> Len(run.c.w), torn |-> FALSE,
                         result |-> run.result, err |-> run.err,
                         stored |-> run.stored, before |-> status.syncAttempts]
    /\ UNCHANGED << controller, spec, meta, source, now, api >>

Next ==
    \/ Tick
    \/ UserEditSource
    \/ UserSetTrigger
    \/ UserDelete
    \/ APIReconcile
    \/ SMFinalize
    \/ SMAddFinalizer
    \/ SMReconcileSync
    \/ STHandleDeletion
    \/ STAddFinalizer
    \/ STReconcile

Spec == Init /\ [][Next]_vars

\* ---------------------------------------- a sync that was cut short
\* The status manager build from the state a cut sync leaves: the phase
\* write of syncRegistry was made and the reconcile ended before its last
\* write (the write failed, or the controller stopped). From there the work
\* queue runs the reconciles that are due and time passes.
SyncingStatus ==
    [InitStatus EXCEPT !.phase = "Syncing", !.message = "Syncing registry data"]

CutInit ==
    /\ controller = "statusmanager"
    /\ spec \in {d \in DeclSpecs : validateSource(d) = NoError}
    /\ meta \in {[exists |-> TRUE, finalizer |-> TRUE, deleting |-> FALSE, trigger |-> t] :
                  t \in Triggers}
    /\ status = SyncingStatus
    /\ source \in SourcePayloads \cup {NoBytes}
    /\ api = NoAPI
    /\ now = 0
    /\ used \in {[faults |-> MaxFaults, edits |-> e] : e \in 0..MaxEdits}
    /\ IF Sync(spec, source, "ok").err = NoError
       THEN \* the write that follows the Syncing phase write was refused
            /\ storage = Store(NoArtifact, Sync(spec, source, "ok").data, "ok").artifact
            /\ streak = 0
            /\ last = [Idle("Reconcile") EXCEPT !.path = "sync", !.writes = 2,
                                                !.stored = TRUE, !.err = TRUE]
       ELSE \* the fetch failed and the write of the Failed phase was refused
            /\ storage = NoArtifact
            /\ streak = 1
            /\ last = [Idle("Reconcile") EXCEPT !.path = "sync", !.writes = 2,
                                                !.step = "fetch",
                                                !.result = RequeueAfter(30)]

CutNext ==
    \/ Tick
    \/ APIReconcile
    \/ STReconcile

CutSpec == CutInit /\ [][CutNext]_vars /\ WF_vars(STReconcile) /\ WF_vars(Tick)

\* ---------------------------------------- a declaration left alone
\* A new declaration with a valid source after the user and the cluster have
\* settled: the spec, the annotations and the source payload change no more
\* and no cluster call fails any more.  The work queue runs the reconciles
\* and time passes.
SettledInit ==
    /\ controller \in {"syncmanager", "statusmanager"}
    /\ spec \in {d \in DeclSpecs : validateSource(d) = NoError}
    /\ meta \in {[exists |-> TRUE, finalizer |-> FALSE, deleting |-> FALSE, trigger |-> t] :
                  t \in Triggers}
    /\ status = InitStatus
    \* a declaration and a payload that both builds sync without error
    /\ source \in {b \in SourcePayloads :
                     /\ Sync(spec, b, "ok").err = NoError
                     /\ PerformSync(InitStatus, spec, "", b, NoArtifact, 0, AllOk).step = ""}
    /\ storage = NoArtifact
    /\ api = NoAPI
    /\ now = 0
    /\ used = [faults |-> MaxFaults, edits |-> MaxEdits]
    /\ streak = 0
    /\ last = Idle("Environment")

SettledNext ==
    \/ Tick
    \/ APIReconcile
    \/ SMAddFinalizer
    \/ SMReconcileSync
    \/ STAddFinalizer
    \/ STReconcile

SettledSpec ==
    /\ SettledInit /\ [][SettledNext]_vars
    /\ WF_vars(Tick) /\ WF_vars(APIReconcile)
    /\ WF_vars(SMAddFinalizer) /\ WF_vars(SMReconcileSync)
    /\ WF_vars(STAddFinalizer) /\ WF_vars(STReconcile)

\* ------------------------------------------- the storage manager on its own
\* The calls of ConfigMapStorageManager in any order, on an artifact that
\* does not exist yet or on a ConfigMap of the artifact's name that somebody
\* else created. last records the call: given is the bytes of the most recent
\* successful Store and stores the number of them since the artifact was last
\* deleted; fault tells that the cluster call was made to fail.
StoredPayloads ==
    { Bytes("toolhive", {}, "src"),
      Bytes("toolhive", {"filesystem", "fetch", "notion"}, "src"),
      Bytes("toolhive", {"filesystem"}, "conv"),
      Bytes("upstream", {"filesystem"}, "src"),
      Bytes("upstream", {"filesystem", "fetch"}, "conv"),
      NotJSON }

ForeignArtifacts ==
    { [exists |-> TRUE, name |-> getStorageConfigMapName, namespace |-> RegNamespace,
       key |-> k, data |-> Bytes("toolhive", {"fetch"}, "src"), owner |-> ""]
      : k \in {"config", StorageConfigMapKeyData} }

StorageCall(op) ==
    [op |-> op, err |-> FALSE, fault |-> FALSE, had |-> storage.exists,
     notFound |-> FALSE, got |-> NoBytes, given |-> last.given, stores |-> last.stores]

StorageInit ==
    /\ controller = "statusmanager"
    /\ spec = BaseSpec
    /\ meta = [exists |-> TRUE, finalizer |-> TRUE, deleting |-> FALSE, trigger |-> ""]
    /\ status = InitStatus
    /\ source = NoBytes
    /\ storage \in {NoArtifact} \cup ForeignArtifacts
    /\ api = NoAPI
    /\ now = 0
    /\ used = [faults |-> 0, edits |-> 0]
    /\ streak = 0
    /\ last = [op |-> "Init", err |-> FALSE, fault |-> FALSE, had |-> storage.exists,
               notFound |-> FALSE, got |-> NoBytes, given |-> NoBytes, stores |-> 0]

StorageStore ==
    /\ last.stores < MaxStores
    /\ \E data \in StoredPayloads, io \in CallOutcomes :
       \E r \in {Store(storage, data, io)} :
         /\ storage' = r.artifact
         /\ last' = [StorageCall("Store") EXCEPT
                        !.err = r.err, !.fault = (io = "error"),
                        !.given = IF r.err THEN @ ELSE data,
                        !.stores = IF r.err THEN @ ELSE @ + 1]
    /\ UNCHANGED << controller, spec, meta, status, source, api, now, used, streak >>

StorageGet ==
    /\ \E io \in CallOutcomes :
       \E r \in {Get(storage, io)} :
         last' = [StorageCall("Get") EXCEPT
                     !.err = r.err, !.fault = (io = "error"),
                     !.notFound = r.notFound, !.got = r.data]
    /\ UNCHANGED << controller, spec, meta, status, source, storage, api, now, used, streak >>

StorageDelete ==
    /\ \E io \in CallOutcomes :
       \E r \in {Delete(storage, io)} :
         /\ storage' = r.artifact
         /\ last' = [StorageCall("Delete") EXCEPT
                        !.err = r.err, !.fault = (io = "error"),
                        !.given = IF r.err THEN @ ELSE NoBytes,
                        !.stores = IF r.err THEN @ ELSE 0]
    /\ UNCHANGED << controller, spec, meta, status, source, api, now, used, streak >>

\* somebody else creates a ConfigMap of the artifact's name
ForeignConfigMap ==
    /\ ~storage.exists
    /\ storage' \in ForeignArtifacts
    /\ last' = [StorageCall("Foreign") EXCEPT !.given = NoBytes, !.stores = 0]
    /\ UNCHANGED << controller, spec, meta, status, source, api, now, used, streak >>

StorageNext ==
    \/ StorageStore
    \/ StorageGet
    \/ StorageDelete
    \/ ForeignConfigMap

StorageSpec == StorageInit /\ [][StorageNext]_vars

\* ----------------------------------------------------- registry API server
\* The HTTP handlers of the API service as functions of what the cluster
\* holds: the declaration m with its status st and the storage artifact art;
\* io gives the outcome of the read of the declaration (decl) and of the
\* storage ConfigMap (cm).
SupportedFormats == {RegistryFormatToolHive, RegistryFormatUpstream}

\* code is the HTTP status, calls the cluster reads made, servers the keys of
\* the servers map of the body and format its format field
Response(code, calls, servers, format) ==
    [code |-> code, calls |-> calls, servers |-> servers,
     count |-> Cardinality(servers), format |-> format]

handleReadiness(m, st, io) ==
    IF io.decl = "error" \/ ~m.exists THEN Response(503, 1, {}, "")
    ELSE Response(200, 1, {}, "")

handleRegistryInfo(m, st, io) ==
    IF io.decl = "error" \/ ~m.exists THEN Response(404, 1, {}, "")
    ELSE Response(200, 1, {}, "")

getRegistryData(m, st, art, io) ==
    IF io.decl = "error" \/ ~m.exists THEN [err |-> TRUE, data |-> NoBytes, calls |-> 1]
    ELSE IF st.storageRef = NilRef THEN [err |-> TRUE, data |-> NoBytes, calls |-> 1]
    ELSE IF \/ io.cm = "error"
            \/ ~art.exists
            \/ art.name # st.storageRef[1].name
            \/ art.namespace # st.storageRef[1].namespace
        THEN [err |-> TRUE, data |-> NoBytes, calls |-> 2]
    ELSE IF art.key # StorageConfigMapKeyData
        THEN [err |-> TRUE, data |-> NoBytes, calls |-> 2]
    ELSE [err |-> FALSE, data |-> art.data, calls |-> 2]

convertRegistryFormat(data, targetFormat) ==
    LET detected == DetectFormat(data)
        currentFormat == IF detected = "" THEN targetFormat ELSE detected
    IN  IF currentFormat # targetFormat THEN Convert(data, currentFormat, targetFormat)
        ELSE [err |-> FALSE, data |-> data]

\* json.Unmarshal into a map: fails on bytes that are no JSON object
ParsesAsObject(data) == data.shape \in {"toolhive", "upstream"}
\* the keys of the value found under the key "servers": a registry in
\* upstream format is a map of server names and has no such key
ServersKey(data) ==
    IF data.shape = "toolhive" THEN data.names \ RemoteNames ELSE {}

\* the steps the two servers handlers share, after the format was accepted
ServersOf(m, st, art, requestedFormat, io) ==
    LET got == getRegistryData(m, st, art, io)
        converted == convertRegistryFormat(got.data, requestedFormat)
    IN  IF got.err THEN [code |-> 500, calls |-> got.calls, servers |-> {}]
        ELSE IF converted.err THEN [code |-> 500, calls |-> got.calls, servers |-> {}]
        ELSE IF ~ParsesAsObject(converted.data)
            THEN [code |-> 500, calls |-> got.calls, servers |-> {}]
        ELSE [code |-> 200, calls |-> got.calls, servers |-> ServersKey(converted.data)]

\* handleListServers reading the registry before it looks at the format
handleListServersReadingFirst(m, st, art, format, io) ==
    LET requestedFormat == IF format = "" THEN RegistryFormatToolHive ELSE format
        got == getRegistryData(m, st, art, io)
    IN  IF requestedFormat \notin SupportedFormats
            THEN Response(400, got.calls, {}, "")
        ELSE LET r == ServersOf(m, st, art, requestedFormat, io)
             IN  IF r.code # 200 THEN Response(r.code, r.calls, {}, "")
                 ELSE Response(200, r.calls, r.servers, requestedFormat)

handleListServers(m, st, art, format, io) ==
    LET requestedFormat == IF format = "" THEN RegistryFormatToolHive ELSE format
    IN  IF requestedFormat \notin SupportedFormats THEN Response(400, 0, {}, "")
        ELSE LET r == ServersOf(m, st, art, requestedFormat, io)
             IN  IF r.code # 200 THEN Response(r.code, r.calls, {}, "")
                 ELSE Response(200, r.calls, r.servers, requestedFormat)

handleGetServer(m, st, art, serverName, format, io) ==
    LET requestedFormat == IF format = "" THEN RegistryFormatToolHive ELSE format
    IN  IF serverName = "" THEN Response(400, 0, {}, "")
        ELSE IF requestedFormat \notin SupportedFormats THEN Response(400, 0, {}, "")
        ELSE LET r == ServersOf(m, st, art, requestedFormat, io)
             IN  IF r.code # 200 THEN Response(r.code, r.calls, {}, "")
                 ELSE IF serverName \notin r.servers THEN Response(404, r.calls, {}, "")
                 ELSE Response(200, r.calls, {serverName}, requestedFormat)

\* what a client may send
RequestFormats == {"", RegistryFormatToolHive, RegistryFormatUpstream, "yaml"}
RequestNames == {"filesystem", "notion", "unknown"}
ServerIOs == [decl : CallOutcomes, cm : CallOutcomes]

\* what the cluster may hold when a request arrives
ReadyStatus ==
    [InitStatus EXCEPT !.phase = "Ready", !.lastSyncTime = 0,
                       !.storageRef = GetStorageReference]
ServedArtifacts ==
    {NoArtifact} \cup {Store(NoArtifact, d, "ok").artifact : d \in StoredPayloads}
    \cup {a \in ForeignArtifacts : a.key # StorageConfigMapKeyData}

Request(op, name, format, io, resp) ==
    [op |-> op, name |-> name, format |-> format, io |-> io, resp |-> resp]

ServerInit ==
    /\ controller = "statusmanager"
    /\ spec = BaseSpec
    /\ meta \in { [exists |-> e, finalizer |-> TRUE, deleting |-> FALSE, trigger |-> ""]
                  : e \in BOOLEAN }
    /\ status \in {InitStatus, ReadyStatus}
    /\ source = NoBytes
    /\ storage \in ServedArtifacts
    /\ api = NoAPI
    /\ now = 0
    /\ used = [faults |-> 0, edits |-> 0]
    /\ streak = 0
    /\ last = Request("Init", "", "", [decl |-> "ok", cm |-> "ok"], Response(0, 0, {}, ""))

GetReadiness ==
    /\ \E io \in ServerIOs :
         /\ io.cm = "ok"
         /\ last' = Request("GET /readiness", "", "", io, handleReadiness(meta, status, io))
    /\ UNCHANGED << controller, spec, meta, status, source, storage, api, now, used, streak >>

GetRegistryInfo ==
    /\ \E io \in ServerIOs :
         /\ io.cm = "ok"
         /\ last' = Request("GET /api/v1/registry/info", "", "", io,
                            handleRegistryInfo(meta, status, io))
    /\ UNCHANGED << controller, spec, meta, status, source, storage, api, now, used, streak >>

GetServers ==
    /\ \E io \in ServerIOs, format \in RequestFormats :
         last' = Request("GET /api/v1/registry/servers", "", format, io,
                         handleListServers(meta, status, storage, format, io))
    /\ UNCHANGED << controller, spec, meta, status, source, storage, api, now, used, streak >>

GetServer ==
    /\ \E io \in ServerIOs, format \in RequestFormats, name \in RequestNames :
         last' = Request("GET /api/v1/registry/servers/{name}", name, format, io,
                         handleGetServer(meta, status, storage, name, format, io))
    /\ UNCHANGED << controller, spec, meta, status, source, storage, api, now, used, streak >>

ServerNext ==
    \/ GetReadiness
    \/ GetRegistryInfo
    \/ GetServers
    \/ GetServer

ServerSpec == ServerInit /\ [][ServerNext]_vars

\* ------------------------------------------------- the filter on its own
\* applyFilteringIfConfigured on every registry and filter of a bounded set:
\* source is the fetched registry, spec.filter the filter
FilteredRegistries ==
    { Bytes("toolhive", names, stamp) : names \in SUBSET ServerNames, stamp \in {"src", "conv"} }
FilterInputs ==
    { Filter(inc, exc, tinc, texc) :
        inc \in {{}, {"*"}, {"f*"}, {"filesystem", "notion"}, {"["}},
        exc \in {{}, {"fetch"}, {"f*"}},
        tinc \in {{}, {"production"}, {"production", "deprecated"}},
        texc \in {{}, {"deprecated"}, {"experimental"}} }
    \cup {NoFilter}

FilterInit ==
    /\ controller = "syncmanager"
    /\ spec \in {[BaseSpec EXCEPT !.filter = f] : f \in FilterInputs}
    /\ meta = [exists |-> TRUE, finalizer |-> TRUE, deleting |-> FALSE, trigger |-> ""]
    /\ status = InitStatus
    /\ source \in FilteredRegistries
    /\ storage = NoArtifact
    /\ api = NoAPI
    /\ now = 0
    /\ used = [faults |-> 0, edits |-> 0]
    /\ streak = 0
    /\ last = [op |-> "Init", err |-> FALSE, result |-> source]

FilterRegistry ==
    /\ \E r \in {applyFilteringIfConfigured(source, spec.filter)} :
         last' = [op |-> "applyFilteringIfConfigured", err |-> r.err, result |-> r.data]
    /\ UNCHANGED << controller, spec, meta, status, source, storage, api, now, used, streak >>

\* the filter applied once more, to the registry the first application
\* returned
FilterAgain ==
    /\ last.op = "applyFilteringIfConfigured"
    /\ ~last.err
    /\ \E r \in {applyFilteringIfConfigured(last.result, spec.filter)} :
         last' = [op |-> "applyFilteringIfConfigured twice", err |-> r.err,
                  result |-> r.data, once |-> last.result]
    /\ UNCHANGED << controller, spec, meta, status, source, storage, api, now, used, streak >>

FilterNext ==
    \/ FilterRegistry
    \/ FilterAgain

FilterSpec == FilterInit /\ [][FilterNext]_vars

\* ---------------------------------------------- the converter on its own
\* Convert and DetectFormat on every payload of a bounded set: source is
\* the payload, last the call made and what it returned
ConverterPayloads ==
    { Bytes("toolhive", names, stamp) : names \in SUBSET ServerNames, stamp \in {"src", "conv"} }
    \cup { Bytes("upstream", names, stamp) :
              names \in SUBSET (ServerNames \cup NamelessKeys), stamp \in {"src", "conv"} }
    \cup {NotJSON, NoBytes}

Conversion(op, err, result, first) ==
    [op |-> op, err |-> err, result |-> result, first |-> first]

ConverterInit ==
    /\ controller = "statusmanager"
    /\ spec = BaseSpec
    /\ meta = [exists |-> TRUE, finalizer |-> TRUE, deleting |-> FALSE, trigger |-> ""]
    /\ status = InitStatus
    /\ source \in ConverterPayloads
    /\ storage = NoArtifact
    /\ api = NoAPI
    /\ now = 0
    /\ used = [faults |-> 0, edits |-> 0]
    /\ streak = 0
    /\ last = Conversion("Init", FALSE, source, "")

\* Convert(data, toolhive, upstream)
ConvertToUpstream ==
    /\ \E r \in {Convert(source, RegistryFormatToolHive, RegistryFormatUpstream)} :
         last' = Conversion("Convert to upstream", r.err, r.data, "")
    /\ UNCHANGED << controller, spec, meta, status, source, storage, api, now, used, streak >>

\* Convert(data, upstream, toolhive) on what Convert(data, toolhive,
\* upstream) returned
ConvertBack ==
    /\ last.op = "Convert to upstream"
    /\ ~last.err
    /\ \E r \in {Convert(last.result, RegistryFormatUpstream, RegistryFormatToolHive)} :
         last' = Conversion("Convert back", r.err, r.data, "")
    /\ UNCHANGED << controller, spec, meta, status, source, storage, api, now, used, streak >>

\* DetectFormat(data): the map is ranged over in an order the runtime
\* chooses, so any entry may be the first
Detect ==
    /\ \E first \in (IF source.shape = "upstream" /\ source.names # {}
                      THEN source.names ELSE {""}) :
         last' = Conversion("DetectFormat", DetectFormatVisiting(source, first) = "",
                            DetectFormatVisiting(source, first), first)
    /\ UNCHANGED << controller, spec, meta, status, source, storage, api, now, used, streak >>

ConverterNext ==
    \/ ConvertToUpstream
    \/ ConvertBack
    \/ Detect

ConverterSpec == ConverterInit /\ [][ConverterNext]_vars

\* ------------------------------------------- the retry interval on its own
\* calculateRetryInterval on every attempt count of a bounded set, which
\* holds the counts around zero and the largest and smallest int32
MaxAttempts == 60
MaxInt32 == 2147483647
\* the largest n for which 5m * 2^n, in nanoseconds, is a time.Duration
\* (int64): 3 * 10^11 * 2^24 < 2^63 <= 3 * 10^11 * 2^25
MaxShift == 24
RetryAttempts == ((0 - MaxAttempts) .. MaxAttempts) \cup {MaxInt32, 0 - MaxInt32}

RetryInit ==
    /\ controller = "syncmanager"
    /\ spec = BaseSpec
    /\ meta = [exists |-> TRUE, finalizer |-> TRUE, deleting |-> FALSE, trigger |-> ""]
    /\ status \in {[InitStatus EXCEPT !.syncAttempts = a] : a \in RetryAttempts}
    /\ source = NoBytes
    /\ storage = NoArtifact
    /\ api = NoAPI
    /\ now = 0
    /\ used = [faults |-> 0, edits |-> 0]
    /\ streak = 0
    /\ last = [op |-> "Init", attempts |-> status.syncAttempts, exponent |-> 0, interval |-> 0]

CalculateRetryInterval ==
    /\ last' = [op |-> "calculateRetryInterval",
                attempts |-> status.syncAttempts,
                exponent |-> IF status.syncAttempts <= 0 THEN 0
                             ELSE retryExponent(status.syncAttempts),
                interval |-> calculateRetryInterval(status.syncAttempts)]
    /\ UNCHANGED << controller, spec, meta, status, source, storage, api, now, used, streak >>

RetryNext == CalculateRetryInterval

RetrySpec == RetryInit /\ [][RetryNext]_vars

\* ------------------------------------------ the watch of source ConfigMaps
\* several declarations in the cluster: spec is, for each declaration, the
\* source it names; last is the ConfigMap event and the requests enqueued
TeamNamespace == "team-a"
Registry(namespace, name) == [namespace |-> namespace, name |-> name]
Registries ==
    { Registry(RegNamespace, RegName),
      Registry(RegNamespace, "community-registry"),
      Registry(TeamNamespace, RegName) }

\* Spec.Source: its type and its ConfigMap reference (set: the pointer is
\* not nil; namespace "" : not specified)
SourceRef(type, set, name, namespace) ==
    [type |-> type, set |-> set, name |-> name, namespace |-> namespace]
SourceRefs ==
    { SourceRef(ConfigMapSourceType, TRUE, SourceConfigMapName, ""),
      SourceRef(ConfigMapSourceType, TRUE, SourceConfigMapName, TeamNamespace),
      SourceRef(ConfigMapSourceType, TRUE, "other-data", ""),
      SourceRef("url", TRUE, SourceConfigMapName, ""),
      SourceRef(ConfigMapSourceType, FALSE, "", "") }
ChangedConfigMaps ==
    { Registry(ns, n) : ns \in {RegNamespace, TeamNamespace},
                        n \in {SourceConfigMapName, "other-data"} }

\* findMCPRegistriesForConfigMap: list is the outcome of listing the
\* declarations ("ok" or "error")
findMCPRegistriesForConfigMap(specs, configMap, list) ==
    IF list = "error" THEN {}
    ELSE { registry \in DOMAIN specs :
             /\ specs[registry].type = ConfigMapSourceType
             /\ specs[registry].set
             /\ specs[registry].name = configMap.name
             /\ (IF specs[registry].namespace = "" THEN registry.namespace
                 ELSE specs[registry].namespace) = configMap.namespace }

\* SetupWithManager: the reconciler of the status manager build watches
\* ConfigMaps through findMCPRegistriesForConfigMap, the reconciler of the
\* sync manager build watches declarations only
WatchesConfigMaps(build) == build = "statusmanager"

WatchInit ==
    /\ controller \in {"syncmanager", "statusmanager"}
    /\ spec \in [Registries -> SourceRefs]
    /\ meta = [exists |-> TRUE, finalizer |-> TRUE, deleting |-> FALSE, trigger |-> ""]
    /\ status = InitStatus
    /\ source = NoBytes
    /\ storage = NoArtifact
    /\ api = NoAPI
    /\ now = 0
    /\ used = [faults |-> 0, edits |-> 0]
    /\ streak = 0
    /\ last = [op |-> "Init", configMap |-> Registry("", ""), list |-> "ok", requests |-> {}]

\* a ConfigMap of the cluster is created, updated or deleted
ConfigMapChanged ==
    /\ \E configMap \in ChangedConfigMaps, list \in {"ok", "error"} :
         last' = [op |-> "ConfigMapChanged", configMap |-> configMap, list |-> list,
                  requests |-> IF WatchesConfigMaps(controller)
                               THEN findMCPRegistriesForConfigMap(spec, configMap, list)
                               ELSE {}]
    /\ UNCHANGED << controller, spec, meta, status, source, storage, api, now, used, streak >>

WatchNext == ConfigMapChanged

WatchSpec == WatchInit /\ [][WatchNext]_vars

\* ------------------------------- a reconcile against a concurrent writer
\* The declaration has a resourceVersion (meta.version) that every accepted
\* write raises. A reconcile is taken step by step: it reads the
\* declaration, the sync manager build reads it again before its one write,
\* the status manager build writes the phase and then the sync status from
\* the object it read first. last is the reconcile's position and the
\* object it holds: m its status, base its resourceVersion, trigger its
\* annotation. Between any two steps another client may write.
MaxVersion == 4
ExternalCount == 9

\* Status().Update of the cluster: an object sent with a resourceVersion
\* other than the stored one is refused with a conflict
UpdateAcceptedAlways(base, current) == TRUE

UpdateAccepted(base, current) == base = current

SyncOutcomes == {"success", "failure", "trigger"}
RaceSource == Bytes("toolhive", {"filesystem", "fetch"}, "src")

\* the final update PerformSync composes from the object it holds
ComposedUpdate(outcome, m, trigger, time) ==
    IF outcome = "success"
    THEN StatusUpdate("Ready", "Registry is ready and synchronized", ReadyConditions,
                      SyncData(time, calculateHash(RaceSource), 2, GetStorageReference,
                               0, NoTime, trigger),
                      NoResult)
    ELSE FailedUpdate("Fetch failed", "SyncSuccessful", "FetchFailed",
                      m.syncAttempts + 1,
                      time + calculateRetryInterval(m.syncAttempts),
                      RequeueAfter(calculateRetryInterval(m.syncAttempts)))

\* the status a write step sends, computed from the object obj it holds,
\* and whether it sends one: the final update or the trigger tracking of the
\* sync manager build, UpdatePhase and UpdateSyncStatus of the status
\* manager build
WriteOf(build, pc, outcome, update, obj, trigger, time) ==
    IF build = "syncmanager"
    THEN IF outcome = "trigger"
         THEN UpdateManualSyncTriggerOnly(obj, trigger, "ok").c
         ELSE applyFinalStatusUpdate(Ctx(obj, obj, <<>>), update, "ok").c
    ELSE IF pc = "read"
         THEN UpdatePhase(Ctx(obj, obj, <<>>), "Syncing", "Syncing registry data", "ok").c
         ELSE UpdateSyncStatus(Ctx(obj, obj, <<>>),
                               Sync(BaseSpec, IF outcome = "failure" THEN NotJSON ELSE RaceSource, "ok"),
                               Sync(BaseSpec, IF outcome = "failure" THEN NotJSON ELSE RaceSource, "ok").err,
                               time, "ok").c

Position(pc, outcome, update, m, base, trigger, wrote, err, retry) ==
    [pc |-> pc, outcome |-> outcome, update |-> update, m |-> m, base |-> base,
     trigger |-> trigger, wrote |-> wrote, err |-> err, retry |-> retry]

SyncedStatus ==
    [InitStatus EXCEPT !.phase = "Ready", !.lastSyncTime = 1, !.serverCount = 3,
                       !.lastSyncHash = calculateHash(Bytes("toolhive", ServerNames, "src")),
                       !.storageRef = GetStorageReference]

RaceInit ==
    /\ controller \in {"syncmanager", "statusmanager"}
    /\ spec = BaseSpec
    /\ meta = [exists |-> TRUE, finalizer |-> TRUE, deleting |-> FALSE, trigger |-> "",
               version |-> 1]
    /\ status \in {[InitStatus EXCEPT !.phase = "Pending"], SyncedStatus}
    /\ source = RaceSource
    /\ storage = NoArtifact
    /\ api = NoAPI
    /\ now = 2
    /\ used = [faults |-> 0, edits |-> 0]
    /\ streak = 0
    /\ last = Position("idle", "", FailedUpdate("", "", "", 0, NoTime, NoResult),
                       status, 0, "", "", FALSE, FALSE)

\* Reconcile reads the declaration and runs the sync up to its status write
RaceRead ==
    /\ last.pc = "idle"
    /\ meta.version < MaxVersion
    /\ \E outcome \in (IF controller = "syncmanager" THEN SyncOutcomes
                         ELSE SyncOutcomes \ {"trigger"}) :
         last' = Position("read", outcome,
                          ComposedUpdate(outcome, status, meta.trigger, now),
                          status, meta.version, meta.trigger, "", FALSE, FALSE)
    /\ UNCHANGED << controller, spec, meta, status, source, storage, api, now, used, streak >>

\* the refresh of applyFinalStatusUpdate and UpdateManualSyncTriggerOnly
RaceRefresh ==
    /\ controller = "syncmanager"
    /\ last.pc = "read"
    /\ last' = [last EXCEPT !.pc = "refreshed", !.m = status, !.base = meta.version,
                            !.trigger = meta.trigger]
    /\ UNCHANGED << controller, spec, meta, status, source, storage, api, now, used, streak >>

\* Status().Update with the object the reconcile holds. The status manager
\* copies the written status to its object, not the new resourceVersion; a
\* write that fails ends the reconcile, which is then queued again
RaceWrite ==
    /\ last.pc = (IF controller = "syncmanager" THEN "refreshed" ELSE last.pc)
    /\ last.pc \in {"read", "refreshed", "phase"}
    /\ \E w \in {WriteOf(controller, last.pc, last.outcome, last.update, last.m,
                          last.trigger, now)} :
         IF w.w = <<>>
         THEN /\ last' = [last EXCEPT !.pc = "phase", !.wrote = "skipped"]
              /\ UNCHANGED << status, meta >>
         ELSE IF UpdateAccepted(last.base, meta.version)
         THEN /\ status' = w.p
              /\ meta' = [meta EXCEPT !.version = @ + 1]
              /\ last' = [last EXCEPT
                             !.pc = IF controller = "statusmanager" /\ last.pc = "read"
                                    THEN "phase" ELSE "idle",
                             !.m = w.p,
                             !.base = IF controller = "syncmanager" THEN meta.version + 1 ELSE @,
                             !.wrote = "accepted"]
         ELSE /\ last' = [last EXCEPT !.pc = "idle", !.wrote = "rejected",
                                      !.err = ~(controller = "statusmanager"
                                                /\ last.pc = "phase"
                                                /\ last.outcome = "failure"),
                                      !.retry = TRUE]
              /\ UNCHANGED << status, meta >>
    /\ UNCHANGED << controller, spec, source, storage, api, now, used, streak >>

\* another client writes the declaration: it sets the sync-trigger
\* annotation or patches the status
ExternalWrite ==
    /\ meta.version < MaxVersion
    /\ \/ /\ meta.trigger = ""
          /\ meta' = [meta EXCEPT !.trigger = "t1", !.version = @ + 1]
          /\ UNCHANGED status
       \/ /\ status.serverCount # ExternalCount
          /\ status' = [status EXCEPT !.serverCount = ExternalCount]
          /\ meta' = [meta EXCEPT !.version = @ + 1]
    /\ last' = [last EXCEPT !.wrote = ""]
    /\ UNCHANGED << controller, spec, source, storage, api, now, used, streak >>

RaceNext ==
    \/ RaceRead
    \/ RaceRefresh
    \/ RaceWrite
    \/ ExternalWrite

RaceSpec == RaceInit /\ [][RaceNext]_vars

\* ------------------------------------------- several declarations at once
\* The cluster with the declarations Registries: status is the status of
\* each, storage the set of ConfigMaps and api the set of Deployments and
\* Services of the cluster, each object with its namespace and name. A
\* reconcile is called for one declaration and makes its cluster calls with
\* the names it builds from that declaration.
ClusterData == Bytes("toolhive", {"filesystem"}, "src")

GetStorageReferenceOf(registry) ==
    << [type |-> "configmap", name |-> getStorageConfigMapNameOf(registry.name),
        namespace |-> registry.namespace, key |-> StorageConfigMapKeyData] >>

\* the ConfigMaps of cms with the storage name of registry, in its namespace
StoredFor(cms, registry) ==
    { a \in cms : /\ a.name = getStorageConfigMapNameOf(registry.name)
                  /\ a.namespace = registry.namespace }

\* Store(ctx, registry, data) on the ConfigMaps of the cluster
StoreIn(cms, registry, data, io) ==
    IF io = "error" THEN [err |-> TRUE, cms |-> cms]
    ELSE IF StoredFor(cms, registry) = {}
        THEN [err |-> FALSE,
              cms |-> cms \cup
                      { [exists |-> TRUE,
                         name |-> getStorageConfigMapNameOf(registry.name),
                         namespace |-> registry.namespace,
                         key |-> StorageConfigMapKeyData,
                         data |-> data, owner |-> registry.name] }]
    ELSE [err |-> FALSE,
          cms |-> (cms \ StoredFor(cms, registry)) \cup
                  { [a EXCEPT !.key = StorageConfigMapKeyData, !.data = data] :
                      a \in StoredFor(cms, registry) }]

\* Delete(ctx, registry) on the ConfigMaps of the cluster
DeleteIn(cms, registry, io) ==
    IF io = "error" THEN [err |-> TRUE, cms |-> cms]
    ELSE [err |-> FALSE, cms |-> cms \ StoredFor(cms, registry)]

\* a Deployment or Service: instance is the declaration named in its pod
\* arguments and labels
APIObject(kind, registry) ==
    [kind |-> kind, name |-> buildResourceNameOf(registry.name, "api"),
     namespace |-> registry.namespace, instance |-> registry.name]

APIObjectsFor(objs, kind, registry) ==
    { o \in objs : /\ o.kind = kind
                   /\ o.name = buildResourceNameOf(registry.name, "api")
                   /\ o.namespace = registry.namespace }

\* reconcileDeployment / reconcileService: create, or update the spec of
\* the object of that name
reconcileObject(objs, kind, registry) ==
    (objs \ APIObjectsFor(objs, kind, registry)) \cup {APIObject(kind, registry)}

ReconcileRegistryAPIIn(objs, registry, io) ==
    IF io.dep = "error" THEN [err |-> TRUE, objs |-> objs]
    ELSE IF io.svc = "error"
        THEN [err |-> TRUE, objs |-> reconcileObject(objs, "Deployment", registry)]
    ELSE [err |-> FALSE,
          objs |-> reconcileObject(reconcileObject(objs, "Deployment", registry),
                                   "Service", registry)]

DeleteRegistryAPIIn(objs, registry, io) ==
    IF io.dep = "error" THEN [err |-> TRUE, objs |-> objs]
    ELSE IF io.svc = "error"
        THEN [err |-> TRUE, objs |-> objs \ APIObjectsFor(objs, "Deployment", registry)]
    ELSE [err |-> FALSE,
          objs |-> (objs \ APIObjectsFor(objs, "Deployment", registry))
                       \ APIObjectsFor(objs, "Service", registry)]

\* the outcomes of the cluster calls of a reconcile: none fails, or the
\* first one of the storage manager or of the API manager does
ClusterIOs ==
    { [st |-> "ok", dep |-> "ok", svc |-> "ok"],
      [st |-> "error", dep |-> "ok", svc |-> "ok"],
      [st |-> "ok", dep |-> "error", svc |-> "ok"] }

ClusterInit ==
    /\ controller = "syncmanager"
    /\ spec = [registry \in Registries |-> BaseSpec]
    /\ meta = [exists |-> TRUE, finalizer |-> TRUE, deleting |-> FALSE, trigger |-> ""]
    /\ status = [registry \in Registries |-> InitStatus]
    /\ source = ClusterData
    /\ storage = {}
    /\ api = {}
    /\ now = 1
    /\ used = [faults |-> 0, edits |-> 0]
    /\ streak = 0
    /\ last = [op |-> "Init", registry |-> Registry("", ""), err |-> FALSE]

\* a reconcile of the declaration registry: the registry is stored, the API
\* resources are reconciled and the status of the declaration is written
ClusterReconcile ==
    /\ \E registry \in Registries, io \in ClusterIOs :
         \E st \in {StoreIn(storage, registry, source, io.st)} :
           /\ storage' = st.cms
           /\ IF st.err
              THEN /\ api' = api
                   /\ status' = [status EXCEPT ![registry].phase = "Failed",
                                               ![registry].syncAttempts = 1]
              ELSE /\ api' = ReconcileRegistryAPIIn(api, registry, io).objs
                   /\ status' = [status EXCEPT
                                    ![registry].phase = "Ready",
                                    ![registry].syncAttempts = 0,
                                    ![registry].lastSyncHash = calculateHash(source),
                                    ![registry].serverCount = 1,
                                    ![registry].storageRef = GetStorageReferenceOf(registry)]
           /\ last' = [op |-> "Reconcile", registry |-> registry, err |-> st.err]
    /\ UNCHANGED << controller, spec, meta, source, now, used, streak >>

\* the finalizer of the declaration registry: its storage and its API
\* resources are deleted
ClusterFinalize ==
    /\ \E registry \in Registries, io \in ClusterIOs :
         /\ storage' = DeleteIn(storage, registry, io.st).cms
         /\ api' = DeleteRegistryAPIIn(api, registry, io).objs
         /\ status' = [status EXCEPT ![registry].phase = "Terminating"]
         /\ last' = [op |-> "Finalize", registry |-> registry,
                     err |-> DeleteIn(storage, registry, io.st).err]
    /\ UNCHANGED << controller, spec, meta, source, now, used, streak >>

ClusterNext ==
    \/ ClusterReconcile
    \/ ClusterFinalize

ClusterSpec == ClusterInit /\ [][ClusterNext]_vars

\* ------------------------------------------------------------------ claims
\* the step just taken was a Reconcile that ran a sync to its end
SyncRan == last.op = "Reconcile" /\ last.path = "sync" /\ ~last.err
SyncSucceeded == SyncRan /\ last.step = ""
SyncFailed == SyncRan /\ last.step # ""

\* C1: while the declaration's phase is Ready its syncAttempts is 0, in both
\* builds of the controller.
C1_ReadyHasNoAttempts ==
    (meta.exists /\ status.phase = "Ready") => status.syncAttempts = 0

\* C1 witness: a sync succeeded after failed ones and left the declaration Ready.
C1_Witness ==
    SyncSucceeded /\ last.before > 0 /\ status.phase = "Ready"

SyncManagerBuild == controller = "syncmanager"

\* C4, as claimed: after a successful PerformSync status.serverCount is the
\* number of servers and remote servers of the stored registry, 0 when it has
\* none whatever the previous count, and DataValid is True.
C4_ServerCountIsOfStoredRegistry ==
    (SyncManagerBuild /\ SyncSucceeded) =>
        /\ status.serverCount = Cardinality(storage.data.names)
        /\ status.conds["DataValid"].status = "True"

\* C5, as claimed: a PerformSync run persists the status in exactly one write,
\* on success and on every failure path, and no partial status shows.
C5_OneStatusWritePerSync ==
    (SyncManagerBuild /\ SyncRan) => (last.writes = 1 /\ ~last.torn)

\* C6: a reconcile of a Failed declaration before its nextRetryTime decides
\* (false, retry-backoff-active, nextRetryTime): it starts no PerformSync,
\* writes no status and asks to be requeued at nextRetryTime.
C6_BackoffIsRespected_Step ==
    [][ ( /\ SyncManagerBuild
          /\ status.phase = "Failed"
          /\ status.nextRetryTime # NoTime
          /\ now < status.nextRetryTime
          /\ last'.op = "Reconcile"
          /\ last'.path \in {"nosync", "fastpath", "sync"} )
        => ( /\ last'.path = "nosync"
             /\ last'.reason = ReasonRetryBackoffActive
             /\ last'.writes = 0
             /\ status' = status
             /\ storage' = storage
             /\ last'.result = RequeueAfter(status.nextRetryTime - now) ) ]_vars

\* C6 witness: a reconcile found the backoff of a Failed declaration running.
C6_Witness ==
    /\ SyncManagerBuild
    /\ last.op = "Reconcile" /\ last.path = "nosync"
    /\ last.reason = ReasonRetryBackoffActive
    /\ status.phase = "Failed" /\ now < status.nextRetryTime
    /\ last.result.after > 0

\* the delay claimed for the k-th failure in a row: 5m, 10m, 20m, 40m, then 1h
ClaimedDelay(k) == Min((5 * 60) * (2 ^ (Min(k, 5) - 1)), Hour)

\* C7, as claimed: counting from syncAttempts = 0, the k-th fetch or storage
\* failure in a row leaves syncAttempts = k and schedules the retry after
\* 5m, 10m, 20m, 40m, 1h, 1h, ... while the limit is not reached.
C7_BackoffDoublesFromFiveMinutes ==
    (SyncManagerBuild /\ SyncFailed /\ last.step \in {"fetch", "store"} /\ ~last.gaveUp) =>
        /\ status.syncAttempts = streak
        /\ status.nextRetryTime = now + ClaimedDelay(streak)
        /\ last.result.after = ClaimedDelay(streak)

\* C8, as claimed: a failure met with syncAttempts at its limit ends the
\* reconcile without any requeue.
C8_GivingUpDoesNotRequeue ==
    (SyncManagerBuild /\ SyncFailed /\ last.gaveUp) => last.result = NoResult

\* C9, as claimed: a failed PerformSync adds exactly 1 to the persisted
\* syncAttempts, a successful one sets it to 0, and no other step changes it.
C9_AttemptsCountFailures_Step ==
    [][ SyncManagerBuild =>
          IF last'.op = "Reconcile" /\ last'.path = "sync"
          THEN ~last'.err =>
                  IF last'.step # ""
                  THEN status'.syncAttempts = status.syncAttempts + 1
                  ELSE status'.syncAttempts = 0
          ELSE status'.syncAttempts = status.syncAttempts ]_vars

\* C10: the successful PerformSync that follows failures below the limit
\* sets, in one write, phase Ready, syncAttempts 0, no nextRetryTime,
\* lastSyncHash the hash fetched, and SourceAvailable, DataValid and
\* SyncSuccessful True.
C10_RecoveryResetsStatus ==
    (SyncManagerBuild /\ SyncSucceeded /\ last.before > 0) =>
        /\ last.writes = 1
        /\ status.phase = "Ready"
        /\ status.syncAttempts = 0
        /\ status.nextRetryTime = NoTime
        /\ status.lastSyncHash = FetchRegistry(spec, source, "ok").hash
        /\ \A t \in {"SourceAvailable", "DataValid", "SyncSuccessful"} :
              status.conds[t].status = "True"

\* C10 witness: a sync succeeded after failed ones that stayed below the limit.
C10_Witness ==
    /\ SyncManagerBuild /\ SyncSucceeded
    /\ last.before > 0 /\ last.before < MaxHandlerCreationRetries
    /\ streak = 0

\* the step taken is a Reconcile of the sync manager build that reached
\* reconcileSync
ReconcileSyncStep ==
    /\ SyncManagerBuild
    /\ last'.op = "Reconcile"
    /\ last'.path \in {"nosync", "fastpath", "sync"}

\* C11: a reconcile for which ShouldSync returned manual-sync-no-data-changes
\* runs the fast path: it sets status.lastManualSyncTrigger to the annotation
\* value and changes no other status field nor the storage artifact, and it
\* returns no requeue; when its status write fails nothing changes at all.
C11_FastPathTouchesOnlyTrigger_Step ==
    [][ (ReconcileSyncStep /\ last'.reason = ReasonManualNoChanges)
        => ( /\ last'.path = "fastpath"
             /\ ~last'.stored
             /\ storage' = storage
             /\ last'.result = NoResult
             /\ IF last'.err THEN status' = status
                ELSE status' = [status EXCEPT !.lastManualSyncTrigger = meta.trigger] ) ]_vars

\* C11 witness: the fast path recorded the trigger of a Ready declaration.
C11_Witness ==
    /\ SyncManagerBuild
    /\ last.op = "Reconcile" /\ last.path = "fastpath" /\ ~last.err
    /\ last.reason = ReasonManualNoChanges
    /\ status.phase = "Ready"
    /\ meta.trigger # "" /\ status.lastManualSyncTrigger = meta.trigger

\* C12, as claimed: once a reconcile has observed a trigger value (a
\* successful sync or the fast path ran with it), the next reconcile with the
\* same value and the same source syncs nothing, stores nothing and changes no
\* status field, in both builds.
C12_SameTriggerIsNoOp_Step ==
    [][ ( /\ meta.exists /\ meta.trigger # ""
          /\ last.op = "Reconcile" /\ ~last.err
          /\ (last.path = "fastpath" \/ (last.path = "sync" /\ last.step = ""))
          /\ status.phase = "Ready"
          /\ last'.op = "Reconcile"
          /\ used' = used )
        => ( /\ status' = status
             /\ storage' = storage
             /\ ~last'.stored
             /\ last'.path \in {"nosync", "unchanged"} ) ]_vars

C14_RequeueOnlyWhenAutomatic ==
    SyncSucceeded =>
        last.result = IF spec.syncPolicy = "automatic" /\ ~IsManualSync(last.reason)
                      THEN RequeueAfter(ParseInterval(spec))
                      ELSE NoResult

\* C15, as claimed: a reconcile of a declaration marked for deletion that
\* leaves the storage artifact in place (its deletion failed or was not
\* reached) returns an error and keeps the finalizer and the declaration.
C15_FailedCleanupKeepsFinalizer_Step ==
    [][ ( /\ meta.exists /\ meta.deleting /\ meta.finalizer
          /\ last'.op = "Reconcile" /\ last'.path = "finalize"
          /\ storage.exists /\ storage'.exists )
        => (last'.err /\ meta'.finalizer /\ meta'.exists) ]_vars

\* C16, as claimed: once the finalizer of a deleted declaration has been
\* cleared, neither its storage artifact nor its API Deployment or Service
\* remains.
C16_NothingOwnedOutlivesDeclaration ==
    (~meta.exists /\ last.op = "Reconcile" /\ last.path = "finalize" /\ ~last.err) =>
        (storage = NoArtifact /\ api = NoAPI)

C18_FirstReconcileOnlyAddsFinalizer_Step ==
    [][ (meta.exists /\ ~meta.deleting /\ ~meta.finalizer /\ last'.op = "Reconcile") =>
            /\ last'.path = "addfinalizer"
            /\ last'.writes = 0 /\ status' = status
            /\ storage' = storage
            /\ ~last'.err =>
                  /\ meta'.finalizer
                  /\ last'.result.requeue \/ last'.result.after > 0 ]_vars

\* C19: a PerformSync that fails at handler creation, source validation,
\* fetch or filtering leaves the storage artifact, its existence and its
\* bytes, as it was.
C19_FailedBeforeStoreKeepsArtifact_Step ==
    [][ ( /\ SyncManagerBuild
          /\ last'.op = "Reconcile" /\ last'.path = "sync"
          /\ last'.step \in {"handler", "validation", "fetch", "filter"} )
        => (storage' = storage /\ ~last'.stored) ]_vars

\* C19 witness: a sync of a declaration that has a storage artifact failed
\* at the fetch.
C19_Witness ==
    /\ SyncManagerBuild
    /\ last.op = "Reconcile" /\ last.path = "sync" /\ last.step = "fetch"
    /\ storage.exists /\ storage.data # NoBytes

\* C20, as claimed: the first sync of a declaration whose source ConfigMap
\* does not exist ends with phase Failed, SourceAvailable False for the
\* reason SourceNotFound, nextRetryTime 1h ahead and syncAttempts 1.
C20_MissingConfigMapFirstSync ==
    ( /\ last.op = "Reconcile" /\ last.path = "sync" /\ ~last.err
      /\ last.before = 0 /\ status.lastSyncTime = NoTime
      /\ source = NoBytes
      /\ spec.sourceType = ConfigMapSourceType /\ Validate(spec) = NoError )
    => ( /\ status.phase = "Failed"
         /\ status.conds["SourceAvailable"] = [status |-> "False", reason |-> "SourceNotFound"]
         /\ status.nextRetryTime = now + Hour
         /\ status.syncAttempts = 1 )

\* the source payload is not in the format the declaration declares
FormatMismatch ==
    \/ source.shape = "notjson"
    \/ /\ source.shape \in {"toolhive", "upstream"}
       /\ source.shape # normalizeFormat(spec.format)

\* C21, as claimed: a sync whose source payload does not match the declared
\* format (upstream bytes declared as canonical, bytes of no known format)
\* is a failed sync whose status carries DataValid = False.
C21_FormatMismatchSetsDataValidFalse ==
    ( /\ SyncRan /\ ~last.err /\ used.faults = 0
      /\ Validate(spec) = NoError
      /\ FormatMismatch )
    => ( /\ SyncFailed
         /\ status.phase = "Failed"
         /\ status.conds["DataValid"].status = "False" )

\* C22: after one or more successful Store calls, Get returns the bytes of
\* the most recent Store, and the artifact is the one ConfigMap
\* <name>-registry-storage of the declaration's namespace, which every Store
\* writes to.
C22_GetReturnsLastStored ==
    /\ last.stores > 0 =>
          /\ Get(storage, "ok") = [err |-> FALSE, notFound |-> FALSE, data |-> last.given]
          /\ storage.exists
          /\ storage.name = getStorageConfigMapName
          /\ storage.namespace = RegNamespace
    /\ (last.op = "Get" /\ ~last.err /\ last.stores > 0) => last.got = last.given

\* C22 witness: a Get that followed a creating and an updating Store returned
\* the registry.
C22_Witness ==
    /\ last.op = "Get" /\ ~last.err
    /\ last.stores >= 2
    /\ last.got \in StoredPayloads /\ last.got.names # {}

\* C23: a Delete whose cluster call does not fail returns no error, whether
\* the artifact exists or not, and after a Delete without error the artifact
\* is absent and Get reports not-found.
C23_DeleteIsIdempotent_Step ==
    [][ last'.op = "Delete" =>
          /\ ~last'.fault => ~last'.err
          /\ ~last'.err =>
                /\ ~storage'.exists
                /\ Get(storage', "ok").err /\ Get(storage', "ok").notFound ]_vars

\* C23 witness: the Delete of an artifact that was already deleted returned
\* no error.
C23_Witness ==
    last.op = "Delete" /\ ~last.err /\ ~last.had /\ ~storage.exists

\* C24, as claimed: an artifact Store has written carries the controller
\* owner reference to the declaration, also when a ConfigMap of its name
\* existed before the first Store.
C24_StoredArtifactIsOwned ==
    (last.stores > 0 /\ storage.exists) => storage.owner = RegName

\* C25, as claimed: once a reconcile has left the declaration Ready, the
\* API Deployment and Service <name>-api exist and the declaration's status
\* records the service URL.
C25_ReadyHasAPIServiceAndURL ==
    ( /\ last.op = "Reconcile" /\ ~last.err
      /\ meta.exists /\ ~meta.deleting
      /\ status.phase = "Ready" )
    => ( /\ api.deployment = buildResourceName("api")
         /\ api.service = buildResourceName("api")
         /\ "apiEndpoint" \in DOMAIN status
         /\ status.apiEndpoint = buildAPIEndpoint )

\* the declaration can be read by the request just answered
DeclarationRead == meta.exists /\ last.io.decl = "ok"
ServersRequests == {"GET /api/v1/registry/servers", "GET /api/v1/registry/servers/{name}"}

\* C26, as claimed: GET /readiness answers 200 exactly when the declaration
\* can be read and its status has a storage reference, and 503 otherwise.
C26_ReadinessNeedsStorageRef ==
    last.op = "GET /readiness" =>
        /\ last.resp.code \in {200, 503}
        /\ last.resp.code = 200 <=> (DeclarationRead /\ status.storageRef # NilRef)

\* C27: on the list-servers and get-server endpoints a missing format is
\* answered as format toolhive, and a format other than toolhive and upstream
\* is answered with 400 without any read of the cluster.
C27_FormatIsCheckedBeforeReading ==
    last.op \in ServersRequests =>
        /\ last.format \notin {"", RegistryFormatToolHive, RegistryFormatUpstream} =>
              (last.resp.code = 400 /\ last.resp.calls = 0)
        /\ last.format = "" =>
              /\ last.resp =
                    IF last.op = "GET /api/v1/registry/servers"
                    THEN handleListServers(meta, status, storage,
                                           RegistryFormatToolHive, last.io)
                    ELSE handleGetServer(meta, status, storage, last.name,
                                         RegistryFormatToolHive, last.io)
              /\ last.resp.code = 200 => last.resp.format = RegistryFormatToolHive

\* C27 witness: a list request with an unsupported format was refused while
\* the declaration and its artifact were there to be read.
C27_Witness ==
    /\ last.op = "GET /api/v1/registry/servers" /\ last.format = "yaml"
    /\ last.resp.code = 400
    /\ last.io = [decl |-> "ok", cm |-> "ok"]
    /\ meta.exists /\ status.storageRef # NilRef /\ storage.exists

\* the request just answered met a failure behind the API service
DownstreamFailure ==
    \/ ~DeclarationRead
    \/ /\ last.op \in ServersRequests
       /\ LET requestedFormat == IF last.format = "" THEN RegistryFormatToolHive
                                 ELSE last.format
              got == getRegistryData(meta, status, storage, last.io)
              converted == convertRegistryFormat(got.data, requestedFormat)
          IN  got.err \/ converted.err \/ ~ParsesAsObject(converted.data)

\* C28, as claimed: on /info, /servers and /servers/{name} (format accepted)
\* every downstream failure is answered with 500, and 404 is answered only
\* by /servers/{name}, without any downstream failure.
C28_DownstreamFailuresAre500 ==
    ( /\ last.op \in ServersRequests \cup {"GET /api/v1/registry/info"}
      /\ last.format \in {"", RegistryFormatToolHive, RegistryFormatUpstream} )
    => ( /\ DownstreamFailure => last.resp.code = 500
         /\ last.resp.code = 404 =>
               (last.op = "GET /api/v1/registry/servers/{name}" /\ ~DownstreamFailure) )

\* C29, as claimed: with a stored canonical registry that contains server
\* filesystem, GET /servers?format=upstream answers a servers map with one
\* entry per stored server, filesystem among them, and their number as count.
C29_UpstreamListHasStoredServers ==
    ( /\ last.op = "GET /api/v1/registry/servers"
      /\ last.format = RegistryFormatUpstream
      /\ last.io = [decl |-> "ok", cm |-> "ok"]
      /\ meta.exists /\ status.storageRef # NilRef
      /\ storage.exists /\ storage.key = StorageConfigMapKeyData
      /\ storage.data.shape = "toolhive" /\ "filesystem" \in storage.data.names )
    => ( /\ last.resp.code = 200
         /\ "filesystem" \in last.resp.servers
         /\ last.resp.servers = ServersKey(storage.data)
         /\ last.resp.count = Cardinality(ServersKey(storage.data)) )

\* C30, as claimed: a server, image or remote, is retained exactly when it
\* passes the four predicates, tags.include asking for every included tag;
\* the rest of the registry is copied unchanged and an empty filter returns
\* the registry as it is.
C30_RetainedIffAllFourPredicates ==
    (last.op = "applyFilteringIfConfigured" /\ ~last.err) =>
        /\ \A n \in ServerNames :
              n \in last.result.names <=>
                 (n \in source.names /\
                  (spec.filter.set => RetainedWithEveryTag(spec.filter, n)))
        /\ last.result.shape = source.shape /\ last.result.stamp = source.stamp
        /\ spec.filter \in {NoFilter, Filter({}, {}, {}, {})} => last.result = source

C32_RoundTripKeepsServerNames ==
    (last.op = "Convert back" /\ source.shape = "toolhive") =>
        /\ ~last.err
        /\ last.result.shape = "toolhive"
        /\ last.result.names = source.names

\* C37: DetectFormat returns upstream for bytes that are not canonical only
\* if they are a non-empty map whose values all have a server.name
C37_UpstreamOnlyIfEveryEntryNamed ==
    ( /\ last.op = "DetectFormat"
      /\ last.result = RegistryFormatUpstream
      /\ source.shape # "toolhive" ) =>
        /\ source.shape = "upstream"
        /\ source.names # {}
        /\ source.names \cap NamelessKeys = {}

\* min(5m * 2^(attempts-1), 1h), computed without the powers that are
\* beyond one hour anyway (5m * 2^4 = 80m)
ClaimedRetryInterval(attempts) ==
    IF attempts < 1 THEN 5 * 60
    ELSE IF attempts - 1 >= 4 THEN Hour
    ELSE Min(5 * 60 * (2 ^ (attempts - 1)), Hour)

\* C36: calculateRetryInterval(attempts) is min(5m * 2^(attempts-1), 1h) for
\* attempts >= 1 and 5m otherwise; it is between 5m and 1h, non-decreasing
\* in attempts, and the shift and the product it computes do not overflow
C36_RetryIntervalIsCappedBackoff ==
    last.op = "calculateRetryInterval" =>
        /\ last.interval = ClaimedRetryInterval(last.attempts)
        /\ last.interval >= 5 * 60
        /\ last.interval <= Hour
        /\ \A b \in RetryAttempts :
              b <= last.attempts => calculateRetryInterval(b) <= last.interval
        /\ last.exponent >= 0
        /\ last.exponent <= MaxShift

\* the interval of an attempt count beyond the cap of the exponent
C36_Witness ==
    /\ last.op = "calculateRetryInterval"
    /\ last.attempts = MaxInt32
    /\ last.interval = Hour

\* C33: when a ConfigMap changes, the declarations enqueued are exactly those
\* whose source is that ConfigMap: type configmap, the same name, and the
\* same namespace (the declaration's own when the source names none)
C33_EnqueuesExactlyTheDependents ==
    last.op = "ConfigMapChanged" =>
        last.requests =
            { registry \in Registries :
                /\ spec[registry].type = ConfigMapSourceType
                /\ spec[registry].set
                /\ spec[registry].name = last.configMap.name
                /\ \/ spec[registry].namespace = last.configMap.namespace
                   \/ /\ spec[registry].namespace = ""
                      /\ registry.namespace = last.configMap.namespace }

C39_SyncingIsLeft ==
    (status.phase = "Syncing") ~> (status.phase \in {"Ready", "Failed"})

\* the declaration is Ready on the current source payload and the reconcile
\* that ran last wrote neither the status nor the storage artifact
Quiescent ==
    /\ status.phase = "Ready"
    /\ status.lastSyncHash = calculateHash(source)
    /\ last.op = "Reconcile" => (last.writes = 0 /\ ~last.stored)

\* C40: when the spec, the annotations and the valid source payload change no
\* more, the declaration becomes Ready with lastSyncHash the hash of the
\* source and from then on no reconcile writes the status or the storage
\* artifact, also with a sync-trigger annotation present
C40_ReachesQuiescence == <>[]Quiescent

====
